---- MODULE Spec2Model ----
(***************************************************************************)
(* The reflection-based service dispatcher of PyMCP (src/src/py/mcp_core.py *)
(* and src/src/py/mcp_introspect.py), driven through the Pyodide worker    *)
(* transport, for the sample service classes of the repository.            *)
(***************************************************************************)
EXTENDS FiniteSets, Integers, Sequences, TLC

(***************************************************************************)
(* Bounds of the model.                                                    *)
(***************************************************************************)
MaxTasks == 3        \* create_task stops growing the task list at this length
MaxInflight == 2     \* requests suspended in an awaiting handler at one time
MaxAttrs == 2        \* attributes in the body of a class statement under study

(***************************************************************************)
(* Values.  Every JSON / Python value that the model passes around is a    *)
(* record of one shape: a type tag, a number and a string.                 *)
(***************************************************************************)
StrV(s) == [t |-> "str", n |-> 0, s |-> s]
IntV(n) == [t |-> "int", n |-> n, s |-> ""]
FloatV(n) == [t |-> "float", n |-> n, s |-> ""]
BoolV(b) == [t |-> "bool", n |-> IF b THEN 1 ELSE 0, s |-> ""]
DictV(s) == [t |-> "dict", n |-> 0, s |-> s]
ModelV(s) == [t |-> "model", n |-> 0, s |-> s]
ListV(s) == [t |-> "list", n |-> 0, s |-> s]
NoneV == [t |-> "none", n |-> 0, s |-> ""]

EmptyMap == [k \in {} |-> NoneV]

\* str.startswith
StartsWith(s, p) == Len(s) >= Len(p) /\ SubSeq(s, 1, Len(p)) = p

\* s[k:] of Python, k counted from 0
StripPrefix(s, k) == SubSeq(s, k + 1, Len(s))

(***************************************************************************)
(* The class namespaces the metaclass sees: one entry per attribute of the *)
(* class body, in definition order.  A parameter is its name, its          *)
(* annotation, whether it has a default, the default, and the lower bound  *)
(* of a Field(ge=...) constraint (NoGe when there is none).                *)
(***************************************************************************)
NoGe == -1000

P(name, ann) == [name |-> name, ann |-> ann, hasDefault |-> FALSE, default |-> NoneV, ge |-> NoGe]
PD(name, ann, d) == [name |-> name, ann |-> ann, hasDefault |-> TRUE, default |-> d, ge |-> NoGe]
PGe(name, ann, g) == [name |-> name, ann |-> ann, hasDefault |-> FALSE, default |-> NoneV, ge |-> g]

\* a function of the class body
Fn(attr, params, ret, doc) ==
    [attr |-> attr, callable |-> TRUE, params |-> params, ret |-> ret, doc |-> doc]
\* a class attribute that is not callable (a plain value, a classmethod object)
Attr(attr) ==
    [attr |-> attr, callable |-> FALSE, params |-> << >>, ret |-> "", doc |-> ""]

McpServerNs ==
    << Attr("_instance"),
       Fn("__init__", << >>, "", ""),
       Attr("boot"),
       Attr("get_instance"),
       Fn("_server_info", << >>, "Json", ""),
       Fn("_capabilities", << >>, "Json", ""),
       Fn("_tools_list", << >>, "list[Json]", ""),
       Fn("_resources_list", << >>, "list[Json]", ""),
       Fn("_prompts_list", << >>, "list[Json]", ""),
       Fn("_handle_request", << P("req", "Json") >>, "Json | None", "") >>

MyServiceOrigNs ==
    << Fn("echo", << P("message", "str"), PD("upper", "bool", BoolV(FALSE)) >>, "str",
          "Echo a message. Set upper to True to shout."),
       Fn("add", << P("a", "float"), P("b", "float") >>, "float", "Add two numbers."),
       Fn("get_item", << PGe("item_id", "int", 1) >>, "Item", "Fetch an item by id.") >>

MyServiceNs ==
    << Fn("__init__", << >>, "", "") >>
    \o MyServiceOrigNs \o
    << Fn("resource_help", << >>, "str",
          "Server help documentation (auto: res://help, text/plain)."),
       Fn("resource_stats", << >>, "dict",
          "Server statistics (auto: res://stats, application/json)."),
       Fn("resource_doc", << P("doc_id", "str") >>, "str",
          "Get document by ID (auto: res://doc/{doc_id}, text/plain)."),
       Fn("prompt_summarize", << P("doc_id", "str"), PD("max_words", "int", IntV(50)) >>, "dict",
          "Summarize a document (arguments auto-inferred from signature)."),
       Fn("prompt_code_review",
          << P("language", "str"), PD("complexity", "str", StrV("medium")) >>, "dict",
          "Generate a code review prompt (arguments auto-inferred).") >>

TaskServerNs ==
    << Fn("__init__", << >>, "", ""),
       Fn("create_task", << P("title", "str"), PD("completed", "bool", BoolV(FALSE)) >>, "Task",
          "Create a new task."),
       Fn("list_tasks", << >>, "list[Task]", "List all tasks."),
       Fn("toggle_task", << PGe("task_id", "int", 1) >>, "Task",
          "Toggle task completion status."),
       Fn("get_weather", << P("location", "str") >>, "WeatherInfo",
          "Get weather information for a location (simulated)."),
       Fn("resource_help", << >>, "str", "Task server help documentation."),
       Fn("resource_stats", << >>, "dict[str, Any]", "Server statistics."),
       Fn("prompt_task_summary", << >>, "str", "Summarize tasks for a user."),
       Fn("prompt_task_report", << >>, "dict[str, Any]", "Generate a detailed task report.") >>

\* the body of HelloWorldService
HelloWorldServiceNs ==
    << Fn("greet", << P("name", "str") >>, "dict",
          "Greet someone by name with a friendly message."),
       Fn("calculate",
          << P("operation", "Literal['add', 'subtract', 'multiply', 'divide']"),
             P("a", "float"), P("b", "float") >>, "dict",
          "Perform basic mathematical operations."),
       Fn("echo", << P("text", "str") >>, "dict",
          "Echo back the input text with additional metadata."),
       Fn("resource_getting_started", << >>, "dict",
          "Getting Started Guide - Introduction to the Hello World Server"),
       Fn("resource_examples", << >>, "dict", "Code Examples - Practical usage examples"),
       Fn("resource_api_reference", << >>, "dict",
          "API Reference - Complete tool and resource documentation"),
       Fn("prompt_conversation_starter", << >>, "dict",
          "Conversation Starter - Template for friendly interactions"),
       Fn("prompt_calculator_guide", << >>, "dict",
          "Calculator Guide - Template for math assistance"),
       Fn("prompt_echo_tester", << >>, "dict",
          "Echo Tester - Template for testing text processing") >>

\* the endpoint counts the Hello World module advertises
SERVER_INFO ==
    [name |-> "Hello World MCP Server", version |-> "1.0.0",
     features |-> [tools |-> 3, resources |-> 3, prompts |-> 3, total_endpoints |-> 9]]

\* pymcp.Server, the parent of TaskServer: an empty class body
ServerNs == << >>

Classes == {"McpServer", "MyServiceOrig", "MyService", "TaskServer"}

Namespace(cls) ==
    CASE cls = "McpServer" -> McpServerNs
      [] cls = "MyServiceOrig" -> MyServiceOrigNs
      [] cls = "MyService" -> MyServiceNs
      [] cls = "TaskServer" -> TaskServerNs
      [] cls = "Server" -> ServerNs

\* the parent classes of a class in method resolution order (object left
\* out); TaskServer derives from pymcp.Server
Bases(cls) ==
    CASE cls = "McpServer" -> << >>
      [] cls = "Server" -> << "McpServer" >>
      [] cls = "TaskServer" -> << "Server", "McpServer" >>
      [] OTHER -> << "McpServer" >>

\* the names a class body binds to classmethod objects: not callable as
\* found in the namespace, callable once looked up on the class
ClassMethods(cls) == IF cls = "McpServer" THEN {"boot", "get_instance"} ELSE {}

\* cls.__name__
ClassName(cls) == IF cls = "MyServiceOrig" THEN "MyService" ELSE cls

(***************************************************************************)
(* String helpers for the names the classifier derives.                    *)
(***************************************************************************)
LowerLetters == "abcdefghijklmnopqrstuvwxyz"
UpperLetters == "ABCDEFGHIJKLMNOPQRSTUVWXYZ"

CharAt(s, i) == SubSeq(s, i, i)

Letters == {CharAt(LowerLetters, i) : i \in 1..26} \cup {CharAt(UpperLetters, i) : i \in 1..26}

UpperOf == [c \in Letters |->
              IF \E i \in 1..26 : CharAt(LowerLetters, i) = c
              THEN CharAt(UpperLetters, CHOOSE i \in 1..26 : CharAt(LowerLetters, i) = c)
              ELSE c]

LowerOf == [c \in Letters |->
              IF \E i \in 1..26 : CharAt(UpperLetters, i) = c
              THEN CharAt(LowerLetters, CHOOSE i \in 1..26 : CharAt(UpperLetters, i) = c)
              ELSE c]

IsLetter(c) == c \in Letters
UpperChar(c) == IF c \in Letters THEN UpperOf[c] ELSE c
LowerChar(c) == IF c \in Letters THEN LowerOf[c] ELSE c

\* str.replace('_', ' ')
RECURSIVE ReplaceUnderscore(_)
ReplaceUnderscore(s) ==
    IF Len(s) = 0 THEN ""
    ELSE (IF CharAt(s, 1) = "_" THEN " " ELSE CharAt(s, 1))
         \o ReplaceUnderscore(SubSeq(s, 2, Len(s)))

\* str.title(): a letter that follows a non-letter is upper-cased, any other
\* letter lower-cased
RECURSIVE TitleFrom(_, _)
TitleFrom(s, i) ==
    IF i > Len(s) THEN ""
    ELSE (IF i = 1 \/ ~IsLetter(CharAt(s, i - 1))
          THEN UpperChar(CharAt(s, i))
          ELSE LowerChar(CharAt(s, i)))
         \o TitleFrom(s, i + 1)

Title(s) == TitleFrom(s, 1)

\* str.upper()
RECURSIVE Upper(_)
Upper(s) ==
    IF Len(s) = 0 THEN ""
    ELSE UpperChar(CharAt(s, 1)) \o Upper(SubSeq(s, 2, Len(s)))

(***************************************************************************)
(* Schema deriver and descriptors.                                         *)
(***************************************************************************)
NoModel == [present |-> FALSE, name |-> "", fields |-> << >>, ann |-> ""]

\* typing.get_type_hints (include_extras false) on one parameter: the
\* metadata of Annotated[...] is stripped, so a Field(ge=...) is lost
get_type_hints(p) == [p EXCEPT !.ge = NoGe]

\* the annotations that name nothing the defining module binds: evaluating
\* such a forward reference raises NameError
Undefined == {"Missing"}

\* typing.get_type_hints on a function evaluates every annotation, of the
\* parameters and of the return value, and lets the NameError of an
\* unresolved one escape
HintsRaise(fn) ==
    \/ fn.ret \in Undefined
    \/ \E i \in 1..Len(fn.params) : fn.params[i].ann \in Undefined

NameError == "NameError: name 'Missing' is not defined"

\* _build_param_model: one field per parameter, required iff it has no
\* default; no model at all for a function without parameters
_build_param_model(fn) ==
    IF Len(fn.params) > 0
    THEN [present |-> TRUE, name |-> fn.attr \o "Params",
          fields |-> [i \in 1..Len(fn.params) |-> get_type_hints(fn.params[i])],
          ann |-> ""]
    ELSE NoModel

\* _build_result_model: a single field "result" of the return annotation; no
\* model without a return annotation
_build_result_model(fn) ==
    IF fn.ret = "" THEN NoModel
    ELSE [present |-> TRUE, name |-> fn.attr \o "Result", fields |-> << >>, ann |-> fn.ret]

_doc_summary(fn) == fn.doc

_Tool(name, fn) ==
    [name |-> name, fn |-> fn.attr,
     params_model |-> _build_param_model(fn),
     result_model |-> _build_result_model(fn),
     description |-> _doc_summary(fn)]

\* re.findall(r'\{(\w+)\}', uri) for the templates the classifier builds: the
\* first parameter of the method when it has one
_extract_uri_params(fn) ==
    IF Len(fn.params) > 0 THEN << fn.params[1].name >> ELSE << >>

_Resource(uri, name, description, mimeType, fn) ==
    [uri |-> uri, name |-> name, description |-> description, mimeType |-> mimeType,
     fn |-> fn.attr, uri_params |-> _extract_uri_params(fn)]

_Prompt(name, description, arguments, fn) ==
    [name |-> name, description |-> description, arguments |-> arguments, fn |-> fn.attr]

\* an assignment keeps only the entry it writes
DictSet_Single(d, key, val) == << << key, val >> >>

\* d[key] = val on an insertion-ordered dict kept as a sequence of
\* <<key, value>> pairs
DictSet(d, key, val) ==
    IF \E i \in 1..Len(d) : d[i][1] = key
    THEN [i \in 1..Len(d) |-> IF d[i][1] = key THEN << key, val >> ELSE d[i]]
    ELSE Append(d, << key, val >>)

DictHas(d, key) == \E i \in 1..Len(d) : d[i][1] = key
DictGet(d, key) == d[CHOOSE i \in 1..Len(d) : d[i][1] = key][2]
DictKeys(d) == {d[i][1] : i \in 1..Len(d)}

\* every resource is exposed under a static URI
ResourceUri_Static(fn) == "res://" \o StripPrefix(fn.attr, 9)

ResourceUri(fn) ==
    LET resource_name == StripPrefix(fn.attr, 9)
    IN IF Len(fn.params) > 0
       THEN "res://" \o resource_name \o "/{" \o fn.params[1].name \o "}"
       ELSE "res://" \o resource_name

ResourceMime(fn) ==
    LET return_type == IF fn.ret = "" THEN "str" ELSE fn.ret
    IN IF return_type = "dict" THEN "application/json" ELSE "text/plain"

PromptArguments(fn) ==
    [i \in 1..Len(fn.params) |->
        [name |-> fn.params[i].name,
         description |-> ReplaceUnderscore(fn.params[i].name) \o " parameter",
         required |-> ~fn.params[i].hasDefault]]

\* McpMeta.__new__: classify the attributes of the class body ns[1..k].
\* raises is the exception that ended the loop ("" when none did): the
\* resource branch and _Tool call get_type_hints, the prompt branch does not
RECURSIVE McpMetaUpTo(_, _)
McpMetaUpTo(ns, k) ==
    IF k = 0 THEN [tools |-> << >>, resources |-> << >>, prompts |-> << >>, raises |-> ""]
    ELSE LET m == McpMetaUpTo(ns, k - 1)
             val == ns[k]
             attr == val.attr
         IN IF m.raises # "" THEN m
            ELSE IF ~val.callable \/ StartsWith(attr, "_") THEN m
            ELSE IF ~StartsWith(attr, "prompt_") /\ HintsRaise(val)
            THEN [m EXCEPT !.raises = NameError]
            ELSE IF StartsWith(attr, "resource_")
            THEN [m EXCEPT !.resources =
                    DictSet(@, ResourceUri(val),
                            _Resource(ResourceUri(val),
                                      Title(ReplaceUnderscore(StripPrefix(attr, 9))),
                                      _doc_summary(val), ResourceMime(val), val))]
            ELSE IF StartsWith(attr, "prompt_")
            THEN [m EXCEPT !.prompts =
                    DictSet(@, StripPrefix(attr, 7),
                            _Prompt(StripPrefix(attr, 7), _doc_summary(val),
                                    PromptArguments(val), val))]
            ELSE [m EXCEPT !.tools = DictSet(@, attr, _Tool(attr, val))]

McpMeta(cls) == McpMetaUpTo(Namespace(cls), Len(Namespace(cls)))

__mcp_tools__(cls) == McpMeta(cls).tools
__mcp_resources__(cls) == McpMeta(cls).resources
__mcp_prompts__(cls) == McpMeta(cls).prompts

(***************************************************************************)
(* Values as Python and JSON print them.                                   *)
(***************************************************************************)
\* json.dumps
JsonDumps(v) ==
    CASE v.t = "str" -> "\"" \o v.s \o "\""
      [] v.t = "int" -> ToString(v.n)
      [] v.t = "float" -> ToString(v.n) \o ".0"
      [] v.t = "bool" -> (IF v.n = 1 THEN "true" ELSE "false")
      [] v.t = "none" -> "null"
      [] OTHER -> v.s

\* str()
Str(v) ==
    CASE v.t = "str" -> v.s
      [] v.t = "int" -> ToString(v.n)
      [] v.t = "float" -> ToString(v.n) \o ".0"
      [] v.t = "bool" -> (IF v.n = 1 THEN "True" ELSE "False")
      [] v.t = "none" -> "None"
      [] OTHER -> v.s

Digits == "0123456789"
IsDigit(c) == \E i \in 1..10 : CharAt(Digits, i) = c
DigitVal(c) == (CHOOSE i \in 1..10 : CharAt(Digits, i) = c) - 1
IsDigits(s) == Len(s) > 0 /\ \A i \in 1..Len(s) : IsDigit(CharAt(s, i))

RECURSIVE ParseDigits(_)
ParseDigits(s) ==
    IF Len(s) = 0 THEN 0
    ELSE 10 * ParseDigits(SubSeq(s, 1, Len(s) - 1)) + DigitVal(CharAt(s, Len(s)))

(***************************************************************************)
(* Validation of the arguments of tools/call against the derived input     *)
(* model (pydantic, lax mode, extra fields ignored).                       *)
(***************************************************************************)
\* the value a field of annotation ann takes from input v; t = "error" when
\* the input is not acceptable
Coerce(ann, v) ==
    CASE ann = "str" ->
            IF v.t = "str" THEN v ELSE [t |-> "error", n |-> 0, s |-> "Input should be a valid string"]
      [] ann = "int" ->
            IF v.t \in {"int", "float", "bool"} THEN IntV(v.n)
            ELSE IF v.t = "str" /\ IsDigits(v.s) THEN IntV(ParseDigits(v.s))
            ELSE [t |-> "error", n |-> 0, s |-> "Input should be a valid integer"]
      [] ann = "float" ->
            IF v.t \in {"int", "float", "bool"} THEN FloatV(v.n)
            ELSE IF v.t = "str" /\ IsDigits(v.s) THEN FloatV(ParseDigits(v.s))
            ELSE [t |-> "error", n |-> 0, s |-> "Input should be a valid number"]
      [] ann = "bool" ->
            IF v.t = "bool" THEN v
            ELSE IF v.t \in {"int", "float"} /\ v.n \in {0, 1} THEN BoolV(v.n = 1)
            ELSE IF v.t = "str" /\ v.s \in {"true", "1", "yes", "on"} THEN BoolV(TRUE)
            ELSE IF v.t = "str" /\ v.s \in {"false", "0", "no", "off"} THEN BoolV(FALSE)
            ELSE [t |-> "error", n |-> 0, s |-> "Input should be a valid boolean"]
      [] OTHER -> v

\* a field that is not supplied is never an error: it takes its default,
\* None when it has none
FieldValue_AllOptional(f, kv) ==
    IF f.name \in DOMAIN kv
    THEN LET c == Coerce(f.ann, kv[f.name])
         IN IF c.t # "error" /\ f.ge # NoGe /\ c.n < f.ge
            THEN [t |-> "error", n |-> 0,
                  s |-> "Input should be greater than or equal to " \o ToString(f.ge)]
            ELSE c
    ELSE f.default

\* the outcome of one field of the model on the supplied arguments kv
FieldValue(f, kv) ==
    IF f.name \in DOMAIN kv
    THEN LET c == Coerce(f.ann, kv[f.name])
         IN IF c.t # "error" /\ f.ge # NoGe /\ c.n < f.ge
            THEN [t |-> "error", n |-> 0,
                  s |-> "Input should be greater than or equal to " \o ToString(f.ge)]
            ELSE c
    ELSE IF f.hasDefault THEN f.default
    ELSE [t |-> "error", n |-> 0, s |-> "Field required"]

\* tool.params_model(**args).model_dump(): the declared fields only, defaults
\* filled in; ok = FALSE with the message of the ValidationError otherwise
Validate(model, kv) ==
    LET fields == model.fields
        vals == [i \in 1..Len(fields) |-> FieldValue(fields[i], kv)]
        bad == {i \in 1..Len(fields) : vals[i].t = "error"}
    IN IF bad = {}
       THEN [ok |-> TRUE, msg |-> "",
             parsed |-> [nm \in {fields[i].name : i \in 1..Len(fields)} |->
                            vals[CHOOSE i \in 1..Len(fields) : fields[i].name = nm]]]
       ELSE LET i == CHOOSE j \in bad : \A k \in bad : j <= k
            IN [ok |-> FALSE,
                msg |-> ToString(Cardinality(bad)) \o " validation error for " \o model.name
                        \o ": " \o fields[i].name \o ": " \o vals[i].s,
                parsed |-> EmptyMap]

\* binding keyword arguments kw to the parameters of a method: the TypeError
\* message Python raises, "" when the call binds
BindError(fn, kw) ==
    LET names == {fn.params[i].name : i \in 1..Len(fn.params)}
        missing == {i \in 1..Len(fn.params) :
                        ~fn.params[i].hasDefault /\ fn.params[i].name \notin DOMAIN kw}
    IN IF \E k \in DOMAIN kw : k \notin names
       THEN fn.attr \o "() got an unexpected keyword argument '"
            \o (CHOOSE k \in DOMAIN kw : k \notin names) \o "'"
       ELSE IF missing # {}
       THEN fn.attr \o "() missing " \o ToString(Cardinality(missing))
            \o " required positional argument"
       ELSE ""

\* the arguments of a bound call, defaults filled in
BoundArgs(fn, kw) ==
    [nm \in {fn.params[i].name : i \in 1..Len(fn.params)} |->
        IF nm \in DOMAIN kw THEN kw[nm]
        ELSE (fn.params[CHOOSE i \in 1..Len(fn.params) : fn.params[i].name = nm]).default]

(***************************************************************************)
(* The service-author methods of the sample classes.  A call yields the    *)
(* returned value or the message of the exception raised, the state of the *)
(* service object afterwards, and whether the coroutine suspends before    *)
(* it returns.                                                             *)
(***************************************************************************)
Returns(v, svc) == [raised |-> FALSE, msg |-> "", value |-> v, svc |-> svc, suspends |-> FALSE]
Raises(msg, svc) == [raised |-> TRUE, msg |-> msg, value |-> NoneV, svc |-> svc, suspends |-> FALSE]
Suspends(v, svc) == [raised |-> FALSE, msg |-> "", value |-> v, svc |-> svc, suspends |-> TRUE]

Task(id, title, completed) == [id |-> id, title |-> title, completed |-> completed]

\* TaskServer.__init__ (MyService.__init__ sets only constant documents)
InitialTasks == << Task(1, "Learn MCP", FALSE), Task(2, "Build something cool", FALSE) >>

InitSvc == [tasks |-> InitialTasks]

TaskJson(t) ==
    "{\"id\": " \o ToString(t.id) \o ", \"title\": \"" \o t.title \o "\", \"completed\": "
    \o (IF t.completed THEN "true" ELSE "false") \o "}"

RECURSIVE TasksJson(_)
TasksJson(ts) ==
    IF Len(ts) = 0 THEN ""
    ELSE TaskJson(ts[1]) \o (IF Len(ts) > 1 THEN ", " ELSE "") \o TasksJson(Tail(ts))

MaxId(ts) == CHOOSE m \in {ts[i].id : i \in 1..Len(ts)} : \A i \in 1..Len(ts) : ts[i].id <= m

Documents == {"doc1", "doc2"}

DocumentText(d) ==
    IF d = "doc1" THEN "This is the first document. It contains important information."
    ELSE "This is the second document. It has different content."

create_task(a, svc) ==
    LET new_id == IF Len(svc.tasks) > 0 THEN MaxId(svc.tasks) + 1 ELSE 1
        task == Task(new_id, a["title"].s, a["completed"].n = 1)
    IN Returns(ModelV(TaskJson(task)), [svc EXCEPT !.tasks = Append(@, task)])

list_tasks(a, svc) == Returns(ListV("[" \o TasksJson(svc.tasks) \o "]"), svc)

toggle_task(a, svc) ==
    LET task_id == a["task_id"].n
        hit == {i \in 1..Len(svc.tasks) : svc.tasks[i].id = task_id}
    IN IF hit # {}
       THEN LET i == CHOOSE j \in hit : \A k \in hit : j <= k
                toggled == [svc.tasks[i] EXCEPT !.completed = ~@]
            IN Returns(ModelV(TaskJson(toggled)), [svc EXCEPT !.tasks[i] = toggled])
       ELSE Raises("Task " \o ToString(task_id) \o " not found", svc)

get_weather(a, svc) ==
    Suspends(ModelV("{\"location\": \"" \o Str(a["location"])
                    \o "\", \"temperature\": 22.5, \"humidity\": 65, \"conditions\": \"Partly cloudy\"}"),
             svc)

echo(a, svc) ==
    Returns(StrV(IF a["upper"].t = "bool" /\ a["upper"].n = 1
                 THEN Upper(a["message"].s) ELSE a["message"].s), svc)

add(a, svc) == Returns(FloatV(a["a"].n + a["b"].n), svc)

get_item(a, svc) ==
    Returns(ModelV("{\"id\": " \o ToString(a["item_id"].n) \o ", \"name\": \"Item "
                   \o ToString(a["item_id"].n) \o "\"}"), svc)

resource_doc(a, svc) ==
    LET doc_id == Str(a["doc_id"])
    IN IF doc_id \notin Documents
       THEN Returns(StrV("Document '" \o doc_id \o "' not found. Available: doc1, doc2"), svc)
       ELSE Returns(StrV(DocumentText(doc_id)), svc)

TaskServer_resource_stats(a, svc) ==
    LET completed == Cardinality({i \in 1..Len(svc.tasks) : svc.tasks[i].completed})
    IN Returns(DictV("{\"mimeType\": \"application/json\", \"text\": \"{\\\"total_tasks\\\": "
                     \o ToString(Len(svc.tasks)) \o ", \\\"completed\\\": " \o ToString(completed)
                     \o ", \\\"pending\\\": " \o ToString(Len(svc.tasks) - completed)
                     \o "}\", \"description\": \"Task statistics\"}"), svc)

prompt_summarize(a, svc) ==
    Returns(DictV("Summarize document " \o Str(a["doc_id"]) \o " in " \o Str(a["max_words"])
                  \o " words"), svc)

prompt_code_review(a, svc) ==
    Returns(DictV("Code review for " \o Str(a["language"]) \o " at " \o Str(a["complexity"])
                  \o " complexity"), svc)

\* the body of method attr of class cls run on bound arguments a
Body(cls, attr, a, svc) ==
    CASE attr = "create_task" -> create_task(a, svc)
      [] attr = "list_tasks" -> list_tasks(a, svc)
      [] attr = "toggle_task" -> toggle_task(a, svc)
      [] attr = "get_weather" -> get_weather(a, svc)
      [] attr = "echo" -> echo(a, svc)
      [] attr = "add" -> add(a, svc)
      [] attr = "get_item" -> get_item(a, svc)
      [] attr = "resource_help" /\ cls = "TaskServer" ->
            Returns(StrV("# Task Management Server"), svc)
      [] attr = "resource_help" /\ cls # "TaskServer" ->
            Returns(StrV("# MyService Help Documentation"), svc)
      [] attr = "resource_stats" /\ cls = "TaskServer" -> TaskServer_resource_stats(a, svc)
      [] attr = "resource_stats" /\ cls # "TaskServer" ->
            Returns(DictV("{\"total_documents\": 2, \"available_tools\": 3, \"available_resources\": 3, \"available_prompts\": 2, \"server_version\": \"0.1.0\"}"), svc)
      [] attr = "resource_doc" -> resource_doc(a, svc)
      [] attr = "prompt_summarize" -> prompt_summarize(a, svc)
      [] attr = "prompt_code_review" -> prompt_code_review(a, svc)
      [] attr = "prompt_task_summary" ->
            Returns(StrV("{{ user_name }}'s Tasks: ..."), svc)
      [] attr = "prompt_task_report" ->
            Returns(DictV("{\"template\": \"# Task Report for {{ date }} ...\", \"inputSchema\": {...}}"), svc)
      [] OTHER -> Raises("'" \o ClassName(cls) \o "' object has no attribute '" \o attr \o "'", svc)

\* the function object that getattr(self, attr) binds
FnOf(cls, attr) ==
    LET ns == Namespace(cls)
    IN ns[CHOOSE i \in 1..Len(ns) : ns[i].attr = attr]

\* fn(**kw) on the service object: a TypeError when the keywords do not bind,
\* the body otherwise
Call(cls, attr, kw, svc) ==
    LET fn == FnOf(cls, attr)
        err == BindError(fn, kw)
    IN IF err # "" THEN Raises(err, svc)
       ELSE Body(cls, attr, BoundArgs(fn, kw), svc)

\* the record of a call fn(**kw) of a service-author method with outcome c:
\* whether its body ran, and whether the call raised and with what message
Invocation(cls, attr, kw, c) ==
    [fn |-> attr, args |-> kw, ran |-> BindError(FnOf(cls, attr), kw) = "",
     raised |-> c.raised, msg |-> c.msg]

(***************************************************************************)
(* Requests.  A key that req.get() finds absent, or finds null, reads as   *)
(* "None"; params and arguments are absent, null or a mapping.             *)
(***************************************************************************)
Absent == [kind |-> "absent", kv |-> EmptyMap]
Null == [kind |-> "null", kv |-> EmptyMap]
Args(kv) == [kind |-> "dict", kv |-> kv]

NoParams == [kind |-> "absent", protocolVersion |-> "None", name |-> "None", uri |-> "None",
             arguments |-> Absent]
NullParams == [NoParams EXCEPT !.kind = "null"]
EmptyParams == [NoParams EXCEPT !.kind = "dict"]

Request(marker, id, method, params) ==
    [jsonrpc |-> marker, id |-> id, method |-> method, params |-> params]

(***************************************************************************)
(* Responses: what _handle_request hands to the transport.                 *)
(***************************************************************************)
NoneRet == [returns |-> "None"]
Escapes(exc) == [raises |-> exc]
Error(req_id, code, message) ==
    [jsonrpc |-> "2.0", id |-> req_id, error |-> [code |-> code, message |-> message]]
\* a result envelope that drops the correlation id
Result_Anonymous(req_id, result) == [jsonrpc |-> "2.0", id |-> "None", result |-> result]

Result(req_id, result) == [jsonrpc |-> "2.0", id |-> req_id, result |-> result]

IsEnvelope(r) == "jsonrpc" \in DOMAIN r
IsError(r) == IsEnvelope(r) /\ "error" \in DOMAIN r
IsResult(r) == IsEnvelope(r) /\ "result" \in DOMAIN r
IsErrorCode(r, code) == IsError(r) /\ r.error.code = code
IsFlagged(r) == IsResult(r) /\ "isError" \in DOMAIN r.result

(***************************************************************************)
(* McpServer: the listing methods.                                         *)
(***************************************************************************)
_server_info(self) == [name |-> ClassName(self.cls), version |-> "0.1.0"]

\* all three entries advertised whatever the tables hold
_capabilities_AllEntries(self) ==
    [k \in {"tools", "resources", "prompts", "experimental"} |->
        CASE k = "tools" -> [listChanged |-> TRUE]
          [] k = "resources" -> [subscribe |-> FALSE, listChanged |-> TRUE]
          [] k = "prompts" -> [listChanged |-> TRUE]
          [] OTHER -> [validation |-> TRUE]]

_capabilities(self) ==
    LET keys == (IF Len(self.mcp.tools) > 0 THEN {"tools"} ELSE {})
                \cup (IF Len(self.mcp.resources) > 0 THEN {"resources"} ELSE {})
                \cup (IF Len(self.mcp.prompts) > 0 THEN {"prompts"} ELSE {})
                \cup {"experimental"}
    IN [k \in keys |->
          CASE k = "tools" -> [listChanged |-> TRUE]
            [] k = "resources" -> [subscribe |-> FALSE, listChanged |-> TRUE]
            [] k = "prompts" -> [listChanged |-> TRUE]
            [] OTHER -> [validation |-> TRUE]]

_tools_list(self) ==
    [i \in 1..Len(self.mcp.tools) |->
        LET t == self.mcp.tools[i][2]
        IN [name |-> self.mcp.tools[i][1], description |-> t.description,
            inputSchema |-> t.params_model, outputSchema |-> t.result_model,
            version |-> 1]]

_resources_list(self) ==
    [i \in 1..Len(self.mcp.resources) |->
        LET r == self.mcp.resources[i][2]
        IN [uri |-> r.uri, name |-> r.name, description |-> r.description,
            mimeType |-> r.mimeType]]

_prompts_list(self) ==
    [i \in 1..Len(self.mcp.prompts) |->
        LET p == self.mcp.prompts[i][2]
        IN [name |-> p.name, description |-> p.description, arguments |-> p.arguments]]

(***************************************************************************)
(* _Resource.matches_uri: the template compiled to ^prefix([^/]+)suffix$   *)
(* and applied with re.match.  The group takes any character but "/", a    *)
(* newline included; $ matches at the end of the string and also just      *)
(* before a newline that ends it.                                          *)
(***************************************************************************)
NoMatch == [matched |-> FALSE, params |-> EmptyMap]

\* position of the first character c in s, 0 when there is none
IndexOf(s, c) ==
    IF \E i \in 1..Len(s) : CharAt(s, i) = c
    THEN CHOOSE i \in 1..Len(s) : CharAt(s, i) = c /\ \A j \in 1..(i - 1) : CharAt(s, j) # c
    ELSE 0

\* the string without the newline that ends it, if one does
DropFinalNewline(s) ==
    IF Len(s) > 0 /\ CharAt(s, Len(s)) = "\n" THEN SubSeq(s, 1, Len(s) - 1) ELSE s

matches_uri(resource, uri) ==
    LET open == IndexOf(resource.uri, "{")
        close == IndexOf(resource.uri, "}")
    IN IF open = 0 \/ close < open
       THEN IF uri = resource.uri \/ DropFinalNewline(uri) = resource.uri
            THEN [matched |-> TRUE, params |-> EmptyMap] ELSE NoMatch
       ELSE LET prefix == SubSeq(resource.uri, 1, open - 1)
                suffix == SubSeq(resource.uri, close + 1, Len(resource.uri))
                pname == SubSeq(resource.uri, open + 1, close - 1)
                \* with nothing after the group, the group runs to the end
                text == IF suffix = "" THEN uri ELSE DropFinalNewline(uri)
                seg == SubSeq(text, Len(prefix) + 1, Len(text) - Len(suffix))
            IN IF /\ Len(text) > Len(prefix) + Len(suffix)
                  /\ StartsWith(text, prefix)
                  /\ SubSeq(text, Len(text) - Len(suffix) + 1, Len(text)) = suffix
                  /\ \A i \in 1..Len(seg) : CharAt(seg, i) # "/"
               THEN [matched |-> TRUE, params |-> [k \in {pname} |-> StrV(seg)]]
               ELSE NoMatch

(***************************************************************************)
(* mcp_introspect.introspect_server                                        *)
(***************************************************************************)
\* characters in code-point order, for sorting member names
CodePoints == "0123456789ABCDEFGHIJKLMNOPQRSTUVWXYZ_abcdefghijklmnopqrstuvwxyz"
OrdOf == [c \in {CharAt(CodePoints, i) : i \in 1..Len(CodePoints)} |->
            CHOOSE i \in 1..Len(CodePoints) : CharAt(CodePoints, i) = c]
Ord(c) == IF c \in DOMAIN OrdOf THEN OrdOf[c] ELSE 0

RECURSIVE StrLess(_, _)
StrLess(a, b) ==
    IF Len(b) = 0 THEN FALSE
    ELSE IF Len(a) = 0 THEN TRUE
    ELSE IF CharAt(a, 1) # CharAt(b, 1) THEN Ord(CharAt(a, 1)) < Ord(CharAt(b, 1))
    ELSE StrLess(SubSeq(a, 2, Len(a)), SubSeq(b, 2, Len(b)))

_type_to_typescript(ann) ==
    CASE ann = "str" -> "string"
      [] ann \in {"int", "float"} -> "number"
      [] ann = "bool" -> "boolean"
      [] ann \in {"dict", "dict[str, Any]"} -> "Record<string, any>"
      [] ann \in {"list", "list[Task]"} -> "any[]"
      [] ann \in {"", "Any"} -> "any"
      [] OTHER -> ann

IntrospectMethod(fn) ==
    [name |-> fn.attr,
     category |-> IF StartsWith(fn.attr, "resource_") THEN "resource"
                  ELSE IF StartsWith(fn.attr, "prompt_") THEN "prompt" ELSE "tool",
     params |-> [i \in 1..Len(fn.params) |->
                    [name |-> fn.params[i].name,
                     type |-> _type_to_typescript(fn.params[i].ann),
                     required |-> ~fn.params[i].hasDefault,
                     default |-> IF fn.params[i].hasDefault THEN Str(fn.params[i].default)
                                 ELSE "None"]],
     returnType |-> _type_to_typescript(fn.ret),
     docstring |-> fn.doc]

\* inspect.getmembers(server_class, predicate=inspect.isfunction), without
\* the names that start with an underscore: sorted by name
RECURSIVE InsertSorted(_, _)
InsertSorted(sorted, m) ==
    IF Len(sorted) = 0 THEN << m >>
    ELSE IF StrLess(m.name, Head(sorted).name) THEN << m >> \o sorted
    ELSE << Head(sorted) >> \o InsertSorted(Tail(sorted), m)

RECURSIVE SortedMembers(_, _)
SortedMembers(ns, k) ==
    IF k = 0 THEN << >>
    ELSE IF ns[k].callable /\ ~StartsWith(ns[k].attr, "_")
    THEN InsertSorted(SortedMembers(ns, k - 1), IntrospectMethod(ns[k]))
    ELSE SortedMembers(ns, k - 1)

introspect_server(self) ==
    LET ns == Namespace(self.cls)
    IN [className |-> ClassName(self.cls),
        version |-> self._protocol_version,
        methods |-> SortedMembers(ns, Len(ns))]

(***************************************************************************)
(* McpServer._handle_request.  The outcome: what is returned (or the       *)
(* exception that escapes), the session flag and the service object        *)
(* afterwards, the service-author methods that ran, and whether the        *)
(* handler suspended in an await before the response was built.            *)
(***************************************************************************)
\* every handled request leaves the session flag cleared
Outcome_Reset(ret, self, calls) ==
    [ret |-> ret, _initialized |-> FALSE, svc |-> self.svc, mcp |-> self.mcp,
     calls |-> calls, suspends |-> FALSE]

\* handling a request drops the tool descriptors of the class
Outcome_Consuming(ret, self, calls) ==
    [ret |-> ret, _initialized |-> self._initialized, svc |-> self.svc,
     mcp |-> [self.mcp EXCEPT !.tools = << >>], calls |-> calls, suspends |-> FALSE]

\* what handling leaves behind: the return value, the session flag, the
\* service attributes and the class-level tables, which no branch writes
Outcome(ret, self, calls) ==
    [ret |-> ret, _initialized |-> self._initialized, svc |-> self.svc, mcp |-> self.mcp,
     calls |-> calls, suspends |-> FALSE]

\* dict.get on the params of the request: AttributeError on null
ParamsIsNone(req) == req.params.kind = "null"

\* every version string is accepted
VersionMismatch_Lenient(self, client_version) == FALSE

\* if client_version != self._protocol_version
VersionMismatch(self, client_version) == client_version # self._protocol_version

\* params.get("protocolVersion")
ClientVersion(req) ==
    IF req.params.kind = "dict" THEN req.params.protocolVersion ELSE "None"

\* a successful initialize already completes the handshake
HandleInitialize_Eager(self, req) ==
    IF ParamsIsNone(req)
    THEN Outcome(Escapes("AttributeError"), self, << >>)
    ELSE IF VersionMismatch(self, ClientVersion(req))
    THEN Outcome(Error(req.id, -32602,
                       "Protocol version mismatch: " \o ClientVersion(req)), self, << >>)
    ELSE [Outcome(Result(req.id, [protocolVersion |-> self._protocol_version,
                                  capabilities |-> _capabilities(self),
                                  serverInfo |-> _server_info(self)]), self, << >>)
            EXCEPT !._initialized = TRUE]

HandleInitialize(self, req) ==
    IF ParamsIsNone(req)
    THEN Outcome(Escapes("AttributeError"), self, << >>)
    ELSE IF VersionMismatch(self, ClientVersion(req))
    THEN Outcome(Error(req.id, -32602,
                       "Protocol version mismatch: " \o ClientVersion(req)), self, << >>)
    ELSE Outcome(Result(req.id, [protocolVersion |-> self._protocol_version,
                                 capabilities |-> _capabilities(self),
                                 serverInfo |-> _server_info(self)]), self, << >>)

\* the notification is answered with an empty result
HandleInitialized_Ack(self, req) ==
    [Outcome(Result(req.id, EmptyMap), self, << >>) EXCEPT !._initialized = TRUE]

HandleInitialized(self, req) ==
    [Outcome(NoneRet, self, << >>) EXCEPT !._initialized = TRUE]

\* introspection placed behind the initialization gate
HandleIntrospect_Gated(self, req, importable) ==
    IF ~self._initialized
    THEN Outcome(Error(req.id, -32002, "Server not initialized"), self, << >>)
    ELSE IF importable
    THEN Outcome(Result(req.id, introspect_server(self)), self, << >>)
    ELSE Outcome(Error(req.id, -32603,
                       "Introspection error: No module named 'mcp_introspect'"), self, << >>)

\* importable: whether "from mcp_introspect import introspect_server" succeeds
HandleIntrospect(self, req, importable) ==
    IF importable
    THEN Outcome(Result(req.id, introspect_server(self)), self, << >>)
    ELSE Outcome(Error(req.id, -32603,
                       "Introspection error: No module named 'mcp_introspect'"), self, << >>)

\* the first resource, in table order, whose matcher accepts the uri; 0 if none
FirstMatch(resources, uri) ==
    LET hits == {i \in 1..Len(resources) : matches_uri(resources[i][2], uri).matched}
    IN IF hits = {} THEN 0 ELSE CHOOSE i \in hits : \A j \in hits : i <= j

HandleResourcesRead(self, req) ==
    IF ParamsIsNone(req)
    THEN Outcome(Escapes("AttributeError"), self, << >>)
    ELSE LET uri == IF req.params.kind = "dict" THEN req.params.uri ELSE "None"
             i == FirstMatch(self.mcp.resources, uri)
         IN IF uri \in {"None", ""}
            THEN Outcome(Error(req.id, -32602, "Missing uri parameter"), self, << >>)
            ELSE IF i = 0
            THEN Outcome(Error(req.id, -32602, "Unknown resource: " \o uri), self, << >>)
            ELSE LET resource == self.mcp.resources[i][2]
                     params == matches_uri(resource, uri).params
                     c == Call(self.cls, resource.fn, params, self.svc)
                     ran == << Invocation(self.cls, resource.fn, params, c) >>
                 IN IF c.raised
                    THEN [Outcome(Error(req.id, -32603, c.msg), self, ran)
                            EXCEPT !.svc = c.svc]
                    ELSE [Outcome(Result(req.id,
                                    [contents |-> << [uri |-> uri,
                                                      mimeType |-> resource.mimeType,
                                                      text |-> IF c.value.t = "dict"
                                                               THEN c.value.s
                                                               ELSE Str(c.value)] >>]),
                                  self, ran)
                            EXCEPT !.svc = c.svc, !.suspends = c.suspends]

\* the returned value wrapped as text content, the way tools/call answers
PromptResult_Wrapped(req_id, value) ==
    Result(req_id, [content |-> << [type |-> "text", text |-> JsonDumps(value)] >>])

\* the answer of prompts/get: the returned value as it is
PromptResult(req_id, value) == Result(req_id, value)

HandlePromptsGet(self, req) ==
    IF ParamsIsNone(req)
    THEN Outcome(Escapes("AttributeError"), self, << >>)
    ELSE LET name == IF req.params.kind = "dict" THEN req.params.name ELSE "None"
             args == IF req.params.kind = "dict" THEN req.params.arguments ELSE Absent
         IN IF ~DictHas(self.mcp.prompts, name)
            THEN Outcome(Error(req.id, -32602, "Unknown prompt: " \o name), self, << >>)
            ELSE IF args.kind = "null"
            THEN Outcome(Error(req.id, -32603,
                               "argument after ** must be a mapping, not NoneType"),
                         self, << >>)
            ELSE LET prompt == DictGet(self.mcp.prompts, name)
                     c == Call(self.cls, prompt.fn, args.kv, self.svc)
                     ran == << Invocation(self.cls, prompt.fn, args.kv, c) >>
                 IN IF c.raised
                    THEN [Outcome(Error(req.id, -32603, c.msg), self, ran)
                            EXCEPT !.svc = c.svc]
                    ELSE [Outcome(PromptResult(req.id, c.value), self, ran)
                            EXCEPT !.svc = c.svc, !.suspends = c.suspends]

\* the failure reported as an envelope-level error
ToolError_Envelope(req_id, msg) == Error(req_id, -32603, msg)

\* the except branch of tools/call: an error-flagged result
ToolError(req_id, msg) ==
    Result(req_id, [content |-> << [type |-> "text", text |-> msg] >>, isError |-> TRUE])

\* tool.result_model(result=res).model_dump()['result']: the value as the
\* single field of the output model holds it; t = "error" when the field
\* does not accept it
ResultDump(result_model, res) == Coerce(result_model.ann, res)

\* every value is JSON-encoded, a string of a tool without output model too
TextContent_AlwaysJson(result_model, res) ==
    IF result_model.present THEN JsonDumps(ResultDump(result_model, res))
    ELSE JsonDumps(res)

\* text_content: with an output model the JSON encoding of the dumped
\* field, without one a string as it is and any other value JSON-encoded
TextContent(result_model, res) ==
    IF result_model.present THEN JsonDumps(ResultDump(result_model, res))
    ELSE IF res.t = "str" THEN res.s
    ELSE JsonDumps(res)

\* the answer of a tools/call that succeeded
ToolResult(req_id, result_model, res) ==
    IF result_model.present /\ ResultDump(result_model, res).t = "error"
    THEN ToolError(req_id, "1 validation error for " \o result_model.name \o ": result: "
                           \o ResultDump(result_model, res).s)
    ELSE Result(req_id, [content |-> << [type |-> "text",
                                         text |-> TextContent(result_model, res)] >>])

\* p = req.get("params") or {}; args = p.get("arguments") or {}
\* what dict.get returns for a name that is not a key
NoTool == [present |-> FALSE]

\* a name the table does not hold is looked up on the class body
ToolLookup_Getattr(self, name) ==
    IF DictHas(self.mcp.tools, name) THEN DictGet(self.mcp.tools, name)
    ELSE IF \E i \in 1..Len(Namespace(self.cls)) :
               Namespace(self.cls)[i].attr = name /\ Namespace(self.cls)[i].callable
    THEN _Tool(name, FnOf(self.cls, name))
    ELSE NoTool

\* self.__mcp_tools__.get(name)
ToolLookup(self, name) ==
    IF DictHas(self.mcp.tools, name) THEN DictGet(self.mcp.tools, name) ELSE NoTool

HandleToolsCall(self, req) ==
    LET name == IF req.params.kind = "dict" THEN req.params.name ELSE "None"
        kv == IF req.params.kind = "dict" /\ req.params.arguments.kind = "dict"
              THEN req.params.arguments.kv ELSE EmptyMap
        tool == ToolLookup(self, name)
    IN IF tool = NoTool
       THEN Outcome(Error(req.id, -32601, "Unknown tool: " \o name), self, << >>)
       ELSE LET v == IF tool.params_model.present THEN Validate(tool.params_model, kv)
                     ELSE [ok |-> TRUE, msg |-> "", parsed |-> EmptyMap]
            IN IF ~v.ok
               THEN Outcome(ToolError(req.id, v.msg), self, << >>)
               ELSE LET c == Call(self.cls, tool.name, v.parsed, self.svc)
                        ran == << Invocation(self.cls, tool.name, v.parsed, c) >>
                    IN IF c.raised
                       THEN [Outcome(ToolError(req.id, c.msg), self, ran) EXCEPT !.svc = c.svc]
                       ELSE [Outcome(ToolResult(req.id, tool.result_model, c.value), self, ran)
                               EXCEPT !.svc = c.svc, !.suspends = c.suspends]

\* the marker is not looked at
BadMarker_Lenient(req) == FALSE

\* the marker check at the head of _handle_request
BadMarker(req) == req.jsonrpc # "2.0"

\* the gate left open: every session passes
Gated_Open(self) == FALSE

\* ENFORCE INITIALIZATION: the gate in front of the capability methods
Gated(self) == ~self._initialized

\* the fallback answers as if the envelope were malformed
MethodNotFound_Invalid(req) == Error(req.id, -32600, "Invalid JSON-RPC")

\* the fallback of the dispatch: no branch matched the method name
MethodNotFound(req) == Error(req.id, -32601, "Unknown method: " \o req.method)

\* the dispatch of an initialized session
Route(self, req) ==
    IF req.method = "tools/list"
    THEN Outcome(Result(req.id, [tools |-> _tools_list(self)]), self, << >>)
    ELSE IF req.method = "resources/list"
    THEN Outcome(Result(req.id, [resources |-> _resources_list(self)]), self, << >>)
    ELSE IF req.method = "resources/read" THEN HandleResourcesRead(self, req)
    ELSE IF req.method = "prompts/list"
    THEN Outcome(Result(req.id, [prompts |-> _prompts_list(self)]), self, << >>)
    ELSE IF req.method = "prompts/get" THEN HandlePromptsGet(self, req)
    ELSE IF req.method = "tools/call" THEN HandleToolsCall(self, req)
    ELSE Outcome(MethodNotFound(req), self, << >>)

_handle_request(self, req, importable) ==
    IF BadMarker(req)
    THEN Outcome(Error(req.id, -32600, "Invalid JSON-RPC"), self, << >>)
    ELSE IF req.method = "initialize" THEN HandleInitialize(self, req)
    ELSE IF req.method = "notifications/initialized" THEN HandleInitialized(self, req)
    ELSE IF req.method = "server/introspect" THEN HandleIntrospect(self, req, importable)
    ELSE IF Gated(self)
    THEN Outcome(Error(req.id, -32002, "Server not initialized"), self, << >>)
    ELSE Route(self, req)

(***************************************************************************)
(* The requests the transport delivers to an instance of class c: every    *)
(* method with every marker and id, and for the methods that read params   *)
(* the names, URIs and arguments of the class's own descriptors next to    *)
(* unknown, reserved and malformed ones.                                   *)
(***************************************************************************)
Markers == {"2.0", "1.0", "None"}
Ids == {"None", "1", "2"}
SUPPORTED_VERSION == "2025-06-18"

CapabilityMethods ==
    {"tools/list", "tools/call", "resources/list", "resources/read", "prompts/list",
     "prompts/get"}
RpcMethods ==
    CapabilityMethods \cup {"initialize", "notifications/initialized", "server/introspect"}
UnknownMethods == {"foo/bar", "initialized", "None"}
Methods == RpcMethods \cup UnknownMethods

WithVersion(v) == [EmptyParams EXCEPT !.protocolVersion = v]
WithUri(u) == [EmptyParams EXCEPT !.uri = u]
WithName(nm, args) == [EmptyParams EXCEPT !.name = nm, !.arguments = args]

Kv1(k, v) == [x \in {k} |-> v]
Kv2(k1, v1, k2, v2) == [x \in {k1, k2} |-> IF x = k1 THEN v1 ELSE v2]

InitializeParams ==
    {NoParams, NullParams, EmptyParams, WithVersion(SUPPORTED_VERSION), WithVersion("2024-11-05")}

\* a concrete URI for a template: the template itself when static, the
\* placeholder replaced by a segment otherwise
Instantiate(uri, seg) ==
    IF IndexOf(uri, "{") = 0 THEN uri ELSE SubSeq(uri, 1, IndexOf(uri, "{") - 1) \o seg

ReadParams(tables) ==
    {NoParams, NullParams}
    \cup {WithUri(u) : u \in {"None", "", "res://other/42", "res://doc"}}
    \cup {WithUri(Instantiate(tables.resources[i][1], seg)) :
            i \in 1..Len(tables.resources), seg \in {"doc1", "alpha", "", "a/b"}}
    \cup {WithUri(Instantiate(tables.resources[i][1], "doc1") \o "\n") :
            i \in 1..Len(tables.resources)}

\* the argument mappings tried for a method: none, all required parameters,
\* all parameters, and a mapping with a key the method does not declare
ArgsTried(name) ==
    CASE name \in {"toggle_task"} ->
            {Absent, Args(Kv1("task_id", IntV(1))), Args(Kv1("task_id", IntV(9))),
             Args(Kv1("task_id", IntV(0))), Args(Kv1("task_id", StrV("x")))}
      [] name = "create_task" ->
            {Args(EmptyMap), Args(Kv1("title", StrV("t"))),
             Args(Kv2("title", StrV("t"), "completed", BoolV(FALSE))),
             Args(Kv2("title", StrV("t"), "priority", IntV(1)))}
      [] name = "get_weather" -> {Args(Kv1("location", StrV("Oslo")))}
      [] name = "echo" ->
            {Args(EmptyMap), Args(Kv1("message", StrV("hi"))),
             Args(Kv2("message", StrV("hi"), "upper", BoolV(TRUE)))}
      [] name = "add" -> {Args(Kv1("a", IntV(2))), Args(Kv2("a", IntV(2), "b", IntV(3)))}
      [] name = "get_item" -> {Args(Kv1("item_id", IntV(1))), Args(Kv1("item_id", IntV(0)))}
      [] name = "summarize" ->
            {Absent, Null, Args(EmptyMap), Args(Kv1("doc_id", StrV("doc1"))),
             Args(Kv2("doc_id", StrV("doc1"), "max_words", IntV(10))),
             Args(Kv1("bogus", StrV("x")))}
      [] name = "code_review" -> {Args(Kv1("language", StrV("python"))), Args(EmptyMap)}
      [] OTHER -> {Absent, Null, Args(EmptyMap)}

PromptParams(tables) ==
    {NoParams, NullParams}
    \cup UNION {{WithName(nm, a) : a \in ArgsTried(nm)} :
                  nm \in DictKeys(tables.prompts) \cup {"None", "nope", "prompt_summarize"}}

ToolParams(tables) ==
    {NoParams, NullParams}
    \cup UNION {{WithName(nm, a) : a \in ArgsTried(nm)} :
                  nm \in DictKeys(tables.tools)
                         \cup {"None", "nope", "_handle_request", "boot", "get_instance",
                               "resource_help", "prompt_summarize"}}

ParamsFor(tables, method) ==
    CASE method = "initialize" -> InitializeParams
      [] method = "resources/read" -> ReadParams(tables)
      [] method = "prompts/get" -> PromptParams(tables)
      [] method = "tools/call" -> ToolParams(tables)
      [] OTHER -> {NoParams}

\* requests that can suspend are sent under two ids, the other parameterised
\* requests under one
IdsFor(m, p) ==
    IF p = NoParams /\ m \in RpcMethods \cup {"foo/bar"} THEN Ids
    ELSE IF p.name = "get_weather" THEN {"1", "2"}
    ELSE {"1"}

\* the jsonrpc markers a request is sent under: the right one, and for the
\* plain requests, a handshake and the calls without arguments a wrong or a
\* missing one
MarkersFor(m, p, i) ==
    {"2.0"}
    \cup (IF p = NoParams /\ i = "1" THEN {"1.0"} ELSE {})
    \cup (IF p = NoParams /\ m \in {"initialize", "notifications/initialized", "tools/list"}
          THEN {"None"} ELSE {})
    \cup (IF m = "initialize" /\ p = WithVersion(SUPPORTED_VERSION) /\ i = "1"
          THEN {"1.0"} ELSE {})
    \cup (IF m = "tools/call" /\ p.arguments = Args(EmptyMap) THEN {"1.0"} ELSE {})

\* whether mcp_introspect can be imported when the request is handled: it
\* can, and one introspection request also arrives when it cannot
ImportOutcomes(marker, m, p, i) ==
    IF marker = "2.0" /\ m = "server/introspect" /\ p = NoParams /\ i = "1"
    THEN BOOLEAN ELSE {TRUE}

NoRequest == Request("", "None", "", NoParams)

(***************************************************************************)
(* State.                                                                  *)
(***************************************************************************)
VARIABLES
    cls,                \* the service class of the served instance
    mcp,                \* its class-level tables __mcp_tools__ / _resources__ / _prompts__
    _initialized,       \* session state: has the handshake completed
    _protocol_version,  \* session state: the protocol version string
    svc,                \* the attributes the service author added to the instance
    inflight,           \* onmessage coroutines suspended in an awaiting handler
    lastReq,            \* the message whose handling the last step started or finished
    lastPre,            \* _initialized when the handling of lastReq began
    lastRet,            \* what _handle_request returned for lastReq
    calls,              \* the service-author methods that handling ran
    posted,             \* what onmessage passed to postMessage in the last step
    notified,           \* history: an initialized notification has been handled
    seenMeta,           \* history: the metadata of the last introspection answered
                        \* while the session was uninitialized (at most one entry)
    probe               \* a class statement or a matcher call under study, with
                        \* its outcome once it has run (NoProbe while serving)

vars == << cls, mcp, _initialized, _protocol_version, svc, inflight,
           lastReq, lastPre, lastRet, calls, posted, notified, seenMeta, probe >>

Self == [cls |-> cls, mcp |-> mcp, _initialized |-> _initialized,
         _protocol_version |-> _protocol_version, svc |-> svc]

Nothing == [nothing |-> TRUE]
Pending == [pending |-> TRUE]
NoProbe == [kind |-> "none"]

\* McpServer.__init__ on a freshly defined class
Init ==
    /\ cls \in Classes
    /\ mcp = McpMeta(cls)
    /\ mcp.raises = ""
    /\ _initialized = FALSE
    /\ _protocol_version = "2025-06-18"
    /\ svc = InitSvc
    /\ inflight = << >>
    /\ lastReq = NoRequest
    /\ lastPre = FALSE
    /\ lastRet = Nothing
    /\ calls = << >>
    /\ posted = Nothing
    /\ notified = FALSE
    /\ seenMeta = << >>
    /\ probe = NoProbe

\* attach_pyodide_worker.onmessage up to its first suspension: the whole of
\* _handle_request when no handler awaits, posting the response if there is one
OnMessage(req, importable) ==
    \E o \in {_handle_request(Self, req, importable)} :
       /\ Len(o.svc.tasks) <= MaxTasks
       /\ o.suspends => Len(inflight) < MaxInflight
       /\ _initialized' = o._initialized
       /\ svc' = o.svc
       /\ mcp' = o.mcp
       /\ lastReq' = req
       /\ lastPre' = _initialized
       /\ calls' = o.calls
       /\ IF o.suspends
          THEN /\ inflight' = Append(inflight, [req |-> req, pre |-> _initialized,
                                                ret |-> o.ret, calls |-> o.calls])
               /\ lastRet' = Pending
               /\ posted' = Nothing
          ELSE /\ inflight' = inflight
               /\ lastRet' = o.ret
               /\ posted' = IF IsEnvelope(o.ret) THEN o.ret ELSE Nothing
       /\ notified' = (notified \/ (~BadMarker(req) /\ req.method = "notifications/initialized"))
       /\ seenMeta' = IF ~BadMarker(req) /\ req.method = "server/introspect"
                         /\ ~_initialized /\ IsResult(o.ret)
                      THEN << o.ret.result >> ELSE seenMeta
       /\ UNCHANGED << cls, _protocol_version, probe >>

\* the awaited handler of the oldest suspended coroutine completes (the
\* handlers sleep for the same time, so they wake in the order they slept);
\* onmessage posts its response
Resume ==
    /\ Len(inflight) > 0
    /\ LET c == Head(inflight)
       IN /\ lastReq' = c.req
          /\ lastPre' = c.pre
          /\ lastRet' = c.ret
          /\ calls' = c.calls
          /\ posted' = IF IsEnvelope(c.ret) THEN c.ret ELSE Nothing
    /\ inflight' = Tail(inflight)
    /\ UNCHANGED << cls, mcp, _initialized, _protocol_version, svc, notified, seenMeta,
                    probe >>

\* a client posts a message to the worker of the served instance, or a
\* suspended handler completes
Next ==
    \/ \E tables \in {mcp} : \E m \in Methods : \E p \in ParamsFor(tables, m) :
       \E i \in IdsFor(m, p) : \E marker \in MarkersFor(m, p, i) :
       \E importable \in ImportOutcomes(marker, m, p, i) :
          OnMessage(Request(marker, i, m, p), importable)
    \/ Resume

Spec == Init /\ [][Next]_vars

TypeOK ==
    /\ cls \in Classes
    /\ _initialized \in BOOLEAN
    /\ Len(inflight) <= MaxInflight
    /\ Len(svc.tasks) <= MaxTasks

(***************************************************************************)
(* Properties.  lastReq is the message whose handling the last step        *)
(* started or finished, lastPre the session flag when that handling began. *)
(***************************************************************************)
WellMarkedReq(req) == req # NoRequest /\ req.jsonrpc = "2.0"
NotInitializedError(r) == IsErrorCode(r, -32002)

\* C1: a well-marked request for one of the six capability methods that is
\* handled while the session is UNINITIALIZED is answered with the
\* not-initialized error -32002 under its id, runs no service-author method
\* and leaves the session UNINITIALIZED.
C1_GateRejectsCapabilityMethods ==
    (WellMarkedReq(lastReq) /\ lastReq.method \in CapabilityMethods /\ ~lastPre) =>
        /\ lastRet = Error(lastReq.id, -32002, "Server not initialized")
        /\ posted = lastRet
        /\ calls = << >>
        /\ ~_initialized

C1_Witness ==
    /\ cls = "TaskServer"
    /\ WellMarkedReq(lastReq) /\ ~lastPre
    /\ lastReq.method = "tools/call" /\ lastReq.params.name = "toggle_task"
    /\ lastReq.params.arguments.kind = "dict"
    /\ NotInitializedError(lastRet)

\* C2: the initialized notification, whatever the state it arrives in, sets
\* the session to INITIALIZED, makes the dispatcher return None and the
\* transport post nothing; once it has been handled, a capability method is
\* never again answered with the not-initialized error.
C2_InitializedNotification ==
    /\ (WellMarkedReq(lastReq) /\ lastReq.method = "notifications/initialized") =>
          /\ _initialized
          /\ lastRet = NoneRet
          /\ posted = Nothing
          /\ calls = << >>
    /\ (notified /\ WellMarkedReq(lastReq) /\ lastReq.method \in CapabilityMethods) =>
          ~NotInitializedError(lastRet)

\* the notification arrives first, before any initialize request
C2_Witness ==
    /\ WellMarkedReq(lastReq) /\ lastReq.method = "notifications/initialized"
    /\ ~lastPre /\ _initialized /\ lastRet = NoneRet /\ posted = Nothing

\* C3: INITIALIZED is terminal: no step takes the session flag from TRUE
\* back to FALSE.
C3_InitializedIsTerminal == [][_initialized => _initialized']_vars

\* an initialize request with a mismatching version handled by an
\* initialized session, which stays initialized
C3_Witness ==
    /\ lastPre /\ _initialized
    /\ WellMarkedReq(lastReq) /\ lastReq.method = "initialize"
    /\ IsErrorCode(lastRet, -32602)

\* an initialize request whose params can be read (absent or a mapping)
IsInitialize(req) ==
    WellMarkedReq(req) /\ req.method = "initialize" /\ ~ParamsIsNone(req)

\* C4: an initialize request whose protocolVersion differs from the
\* supported version, or is absent, is answered with the protocol version
\* mismatch error -32602 under its id and leaves the session state as it
\* was; an initialize request with the supported version that follows such
\* a rejection is answered with a result.
C4_VersionMismatch ==
    [][/\ (IsInitialize(lastReq') /\ ClientVersion(lastReq') # SUPPORTED_VERSION) =>
             /\ lastRet' = Error(lastReq'.id, -32602,
                                 "Protocol version mismatch: " \o ClientVersion(lastReq'))
             /\ posted' = lastRet'
             /\ calls' = << >>
             /\ _initialized' = _initialized
             /\ _protocol_version' = _protocol_version
       /\ (/\ IsInitialize(lastReq) /\ IsErrorCode(lastRet, -32602)
           /\ IsInitialize(lastReq') /\ ClientVersion(lastReq') = SUPPORTED_VERSION) =>
             /\ IsResult(lastRet') /\ ~IsError(lastRet')
             /\ lastRet'.id = lastReq'.id]_vars

\* an older protocol version is rejected while the session is uninitialized
C4_Witness ==
    /\ IsInitialize(lastReq) /\ ClientVersion(lastReq) = "2024-11-05"
    /\ ~lastPre /\ ~_initialized
    /\ lastRet = Error(lastReq.id, -32602, "Protocol version mismatch: 2024-11-05")

\* C5: an initialize request with the supported version is answered with a
\* result whose protocolVersion is the server's version and whose
\* capabilities hold the tools / resources / prompts entry exactly when the
\* class's corresponding table is non-empty, and it leaves the session flag
\* as it was; a capability request handled right after a successful
\* initialize of an uninitialized session is rejected as not-initialized.
C5_InitializeAdvertises ==
    [][/\ (IsInitialize(lastReq') /\ ClientVersion(lastReq') = SUPPORTED_VERSION) =>
             /\ IsResult(lastRet') /\ lastRet'.id = lastReq'.id
             /\ posted' = lastRet'
             /\ lastRet'.result.protocolVersion = _protocol_version'
             /\ ("tools" \in DOMAIN lastRet'.result.capabilities)
                   <=> (Len(mcp.tools) > 0)
             /\ ("resources" \in DOMAIN lastRet'.result.capabilities)
                   <=> (Len(mcp.resources) > 0)
             /\ ("prompts" \in DOMAIN lastRet'.result.capabilities)
                   <=> (Len(mcp.prompts) > 0)
             /\ _initialized' = _initialized
       /\ (/\ IsInitialize(lastReq) /\ IsResult(lastRet) /\ ~_initialized
           /\ WellMarkedReq(lastReq') /\ lastReq'.method \in CapabilityMethods) =>
             /\ NotInitializedError(lastRet')
             /\ calls' = << >>]_vars

\* a class with tools but neither resources nor prompts has been initialized
\* successfully and the session is still uninitialized
C5_Witness ==
    /\ cls = "MyServiceOrig"
    /\ IsInitialize(lastReq) /\ ClientVersion(lastReq) = SUPPORTED_VERSION
    /\ IsResult(lastRet) /\ ~_initialized
    /\ "tools" \in DOMAIN lastRet.result.capabilities
    /\ "prompts" \notin DOMAIN lastRet.result.capabilities

\* C6: a step that handles anything other than a well-marked initialized
\* notification leaves the session flag and the protocol version string
\* unchanged.
C6_SessionStateFrame ==
    [][~(WellMarkedReq(lastReq') /\ lastReq'.method = "notifications/initialized") =>
          /\ _initialized' = _initialized
          /\ _protocol_version' = _protocol_version]_vars

\* an accepted initialize request has left the session uninitialized
C6_Witness ==
    /\ IsInitialize(lastReq) /\ ~lastPre
    /\ IsResult(lastRet) /\ lastRet.result.protocolVersion = SUPPORTED_VERSION
    /\ ~_initialized /\ _protocol_version = SUPPORTED_VERSION

\* C7: a well-marked server/introspect request is answered in every state
\* with an envelope that is not the not-initialized error, and the metadata
\* returned by an initialized session equals the metadata the same instance
\* returned while it was uninitialized.
C7_IntrospectExempt ==
    (WellMarkedReq(lastReq) /\ lastReq.method = "server/introspect") =>
        /\ IsEnvelope(lastRet) /\ posted = lastRet
        /\ ~NotInitializedError(lastRet)
        /\ calls = << >>
        /\ (lastPre /\ IsResult(lastRet) /\ seenMeta # << >>) =>
               lastRet.result = seenMeta[1]

\* introspection answered before the handshake
C7_Witness ==
    /\ WellMarkedReq(lastReq) /\ lastReq.method = "server/introspect"
    /\ ~lastPre /\ ~_initialized
    /\ IsResult(lastRet) /\ seenMeta = << lastRet.result >>

\* C8 as stated: a well-marked request whose method is not an RPC method is
\* answered with the method-not-found error -32601 in every state.
C8_UnknownMethodAnyState ==
    (WellMarkedReq(lastReq) /\ lastReq.method \in UnknownMethods) =>
        IsErrorCode(lastRet, -32601)

\* C8: a well-marked request whose method is not an RPC method is answered
\* with the method-not-found error -32601 when the session is INITIALIZED,
\* and with the not-initialized error -32002 when it is UNINITIALIZED.
C8_UnknownMethodGated ==
    (WellMarkedReq(lastReq) /\ lastReq.method \in UnknownMethods) =>
        /\ lastPre => lastRet = Error(lastReq.id, -32601,
                                      "Unknown method: " \o lastReq.method)
        /\ ~lastPre => lastRet = Error(lastReq.id, -32002, "Server not initialized")
        /\ posted = lastRet
        /\ calls = << >>

\* an unknown method reaches the fallback of an initialized session
C8_Witness ==
    /\ WellMarkedReq(lastReq) /\ lastReq.method = "foo/bar"
    /\ lastPre
    /\ lastRet = Error(lastReq.id, -32601, "Unknown method: foo/bar")

\* C9: when the method of a tool raises during tools/call of an initialized
\* session, the response is an envelope with a result and no error, under
\* the request's id, whose result has isError true and carries the message
\* of the exception.
C9_ToolFailureFlagged ==
    (/\ WellMarkedReq(lastReq) /\ lastReq.method = "tools/call" /\ lastPre
     /\ calls # << >> /\ calls[1].raised) =>
        /\ IsResult(lastRet) /\ ~IsError(lastRet)
        /\ lastRet.id = lastReq.id
        /\ IsFlagged(lastRet) /\ lastRet.result.isError = TRUE
        /\ lastRet.result.content = << [type |-> "text", text |-> calls[1].msg] >>
        /\ posted = lastRet

\* toggle_task raises ValueError for a task id that does not exist
C9_Witness ==
    /\ cls = "TaskServer" /\ lastPre
    /\ WellMarkedReq(lastReq) /\ lastReq.method = "tools/call"
    /\ lastReq.params.name = "toggle_task"
    /\ calls # << >> /\ calls[1].ran /\ calls[1].raised
    /\ lastRet = ToolError(lastReq.id, "Task 9 not found")

\* C10: when the method bound to a matched resource or to a known prompt
\* raises during resources/read or prompts/get of an initialized session,
\* the response is an envelope with a result that is error-flagged, not an
\* envelope-level error.
C10_ResourcePromptFailureFlagged ==
    (/\ WellMarkedReq(lastReq) /\ lastReq.method \in {"resources/read", "prompts/get"}
     /\ lastPre /\ calls # << >> /\ calls[1].raised) =>
        /\ IsFlagged(lastRet)
        /\ ~IsError(lastRet)

\* a well-formed envelope: marker "2.0", an id, and exactly one of result
\* and error
WellFormed(r) ==
    /\ IsEnvelope(r) /\ r.jsonrpc = "2.0"
    /\ "id" \in DOMAIN r
    /\ IsResult(r) # IsError(r)

\* C11: whatever the request and the state, _handle_request lets no
\* exception escape: once the handling of a request has finished it has
\* returned None or a well-formed envelope.
C11_NothingEscapes ==
    (lastReq # NoRequest /\ lastRet # Pending) =>
        \/ lastRet = NoneRet
        \/ WellFormed(lastRet)

\* C12: every envelope the dispatcher returns, on every path, carries the id
\* of the request it answers and is what the transport posts; the response
\* that a suspended handler will produce carries the id of its own request,
\* however many other requests are in flight.
C12_IdEchoed ==
    /\ IsEnvelope(lastRet) => (lastRet.id = lastReq.id /\ posted = lastRet)
    /\ IsEnvelope(posted) => posted = lastRet
    /\ \A k \in 1..Len(inflight) :
          IsEnvelope(inflight[k].ret) /\ inflight[k].ret.id = inflight[k].req.id

\* two get_weather calls were in flight under different ids; the first has
\* completed and its response is posted while the second still waits
C12_Witness ==
    /\ Len(inflight) = 1 /\ inflight[1].req.id = "2"
    /\ lastReq.method = "tools/call" /\ lastReq.params.name = "get_weather"
    /\ lastReq.id = "1"
    /\ IsResult(posted) /\ posted.id = "1"

\* C13: a message without a correlation id never produces a response,
\* whatever its method and the session state, and every request that has
\* an id produces one: the transport posts nothing for the former and an
\* envelope for the latter once its handling has finished.
C13_NotificationsSilent ==
    (lastReq # NoRequest /\ lastRet # Pending) =>
        /\ lastReq.id = "None" => posted = Nothing
        /\ lastReq.id # "None" => IsEnvelope(posted)

\* the names of the required and of all fields of the input model of a tool
RequiredOf(tool) ==
    {tool.params_model.fields[i].name :
        i \in {j \in 1..Len(tool.params_model.fields) :
                  ~tool.params_model.fields[j].hasDefault}}
DeclaredOf(tool) ==
    {tool.params_model.fields[i].name : i \in 1..Len(tool.params_model.fields)}
FieldOf(tool, nm) ==
    tool.params_model.fields[CHOOSE i \in 1..Len(tool.params_model.fields) :
                                tool.params_model.fields[i].name = nm]

\* the last request is a tools/call of a known tool handled by an
\* initialized session with a mapping (possibly empty) of arguments
IsToolCall(req) ==
    /\ WellMarkedReq(req) /\ req.method = "tools/call" /\ lastPre
    /\ req.params.kind = "dict" /\ DictHas(mcp.tools, req.params.name)
    /\ req.params.arguments.kind = "dict"

\* C14: in a tools/call of an initialized session, arguments that omit a
\* required parameter of the tool yield an error-flagged validation result
\* and no handler runs; arguments that supply all required parameters and
\* any subset of the optional ones, with values the field types accept,
\* run the handler exactly once on the supplied values as the fields read
\* them, the omitted optionals taking their defaults.
C14_RequiredAndOptional ==
    IsToolCall(lastReq) =>
        LET tool == DictGet(mcp.tools, lastReq.params.name)
            kv == lastReq.params.arguments.kv
        IN /\ (RequiredOf(tool) \ DOMAIN kv # {}) =>
                 /\ IsFlagged(lastRet) /\ lastRet.id = lastReq.id
                 /\ calls = << >>
           /\ (/\ RequiredOf(tool) \subseteq DOMAIN kv
               /\ DOMAIN kv \subseteq DeclaredOf(tool)
               /\ \A nm \in DOMAIN kv : Coerce(FieldOf(tool, nm).ann, kv[nm]).t # "error") =>
                 /\ Len(calls) = 1 /\ calls[1].fn = tool.name /\ calls[1].ran
                 /\ DOMAIN calls[1].args = DeclaredOf(tool)
                 /\ \A nm \in DeclaredOf(tool) :
                       calls[1].args[nm] =
                          IF nm \in DOMAIN kv THEN Coerce(FieldOf(tool, nm).ann, kv[nm])
                          ELSE FieldOf(tool, nm).default

\* echo called with its required message only: upper takes its default
C14_Witness ==
    /\ IsToolCall(lastReq) /\ lastReq.params.name = "echo"
    /\ DOMAIN lastReq.params.arguments.kv = {"message"}
    /\ Len(calls) = 1 /\ calls[1].ran
    /\ calls[1].args["upper"] = BoolV(FALSE)
    /\ IsResult(lastRet) /\ ~IsFlagged(lastRet)

\* C15: in a tools/call of an initialized session, arguments that contain
\* a key the input model of the tool does not declare yield an
\* error-flagged validation result and no handler runs.
C15_ExtraFieldRejected ==
    (IsToolCall(lastReq) /\ lastRet # Pending) =>
        LET tool == DictGet(mcp.tools, lastReq.params.name)
            kv == lastReq.params.arguments.kv
        IN (DOMAIN kv \ DeclaredOf(tool) # {}) =>
              /\ IsFlagged(lastRet)
              /\ calls = << >>

\* sub occurs in s
Contains(s, sub) ==
    \E i \in 0..(Len(s) - Len(sub)) : SubSeq(s, i + 1, i + Len(sub)) = sub

NotFoundKinds == {"tool", "resource", "prompt", "method"}

\* the not-found condition a request of an initialized session runs into,
\* "none" when it names something the class has (or names nothing)
NotFoundKind(tables, req) ==
    IF req.method = "tools/call"
    THEN IF req.params.kind = "dict" /\ req.params.name # "None"
            /\ ~DictHas(tables.tools, req.params.name)
         THEN "tool" ELSE "none"
    ELSE IF req.method = "resources/read"
    THEN IF req.params.kind = "dict" /\ req.params.uri \notin {"None", ""}
            /\ FirstMatch(tables.resources, req.params.uri) = 0
         THEN "resource" ELSE "none"
    ELSE IF req.method = "prompts/get"
    THEN IF req.params.kind = "dict" /\ req.params.name # "None"
            /\ ~DictHas(tables.prompts, req.params.name)
         THEN "prompt" ELSE "none"
    ELSE IF req.method \in RpcMethods THEN "none"
    ELSE "method"

\* the name, URI or method the request asked for in vain
Offender(req) ==
    IF req.method \in {"tools/call", "prompts/get"} THEN req.params.name
    ELSE IF req.method = "resources/read" THEN req.params.uri
    ELSE req.method

\* one request of each not-found kind, and the error code the dispatcher of
\* an initialized session answers it with
NotFoundProbe(kind) ==
    CASE kind = "tool" -> Request("2.0", "1", "tools/call", WithName("nope", Absent))
      [] kind = "resource" -> Request("2.0", "1", "resources/read", WithUri("res://other/42"))
      [] kind = "prompt" -> Request("2.0", "1", "prompts/get", WithName("nope", Absent))
      [] kind = "method" -> Request("2.0", "1", "foo/bar", NoParams)

NotFoundCode(self, kind) ==
    _handle_request([self EXCEPT !._initialized = TRUE], NotFoundProbe(kind), TRUE).ret.error.code

\* C16: a well-marked request of an initialized session that names an
\* unknown tool, an unknown resource URI, an unknown prompt or an unknown
\* RPC method is answered with an error whose message contains the offending
\* name, URI or method and whose code differs from the code of every other
\* not-found kind.
C16_NotFoundCodesDistinct ==
    (WellMarkedReq(lastReq) /\ lastPre /\ NotFoundKind(mcp, lastReq) # "none") =>
        /\ IsError(lastRet)
        /\ Contains(lastRet.error.message, Offender(lastReq))
        /\ \A other \in NotFoundKinds \ {NotFoundKind(mcp, lastReq)} :
              lastRet.error.code # NotFoundCode(Self, other)

\* C17: every step that handles a message whose jsonrpc marker is not "2.0"
\* returns and posts the invalid-request error -32600 under the id of the
\* message, runs no service-author method and changes nothing of the
\* session or the service: the flag, the protocol version, the service
\* attributes and the suspended handlers stay as they were, also when the
\* method is initialize or notifications/initialized.
C17_BadMarkerNotRouted ==
    [][(lastReq' # NoRequest /\ lastReq'.jsonrpc # "2.0") =>
          /\ lastRet' = Error(lastReq'.id, -32600, "Invalid JSON-RPC")
          /\ posted' = lastRet'
          /\ calls' = << >>
          /\ UNCHANGED << cls, mcp, _initialized, _protocol_version, svc, inflight, notified >>
      ]_vars

C17_Witness ==
    /\ lastReq.jsonrpc = "1.0"
    /\ lastReq.method = "notifications/initialized"
    /\ ~lastPre /\ ~_initialized
    /\ IsErrorCode(posted, -32600)

\* the callables reachable on a class by attribute lookup whose name does not
\* start with an underscore: the functions and classmethods of its own body
\* and of the bodies of its parents
PublicCallables(c) ==
    LET mro == << c >> \o Bases(c)
        Own(k) == {Namespace(k)[i].attr : i \in {j \in 1..Len(Namespace(k)) :
                        Namespace(k)[j].callable \/ Namespace(k)[j].attr \in ClassMethods(k)}}
    IN {n \in UNION {Own(mro[i]) : i \in 1..Len(mro)} : ~StartsWith(n, "_")}

\* the descriptor mappings that hold a descriptor of method n
MappingsOf(tables, n) ==
    {"tools" : i \in {j \in 1..Len(tables.tools) : tables.tools[j][2].fn = n}}
    \cup {"resources" : i \in {j \in 1..Len(tables.resources) : tables.resources[j][2].fn = n}}
    \cup {"prompts" : i \in {j \in 1..Len(tables.prompts) : tables.prompts[j][2].fn = n}}

\* the mapping the name prefix selects, in priority order
MappingFor(n) ==
    IF StartsWith(n, "resource_") THEN "resources"
    ELSE IF StartsWith(n, "prompt_") THEN "prompts"
    ELSE "tools"

\* the methods that have a descriptor in some mapping
Described(tables) ==
    {tables.tools[i][2].fn : i \in 1..Len(tables.tools)}
    \cup {tables.resources[i][2].fn : i \in 1..Len(tables.resources)}
    \cup {tables.prompts[i][2].fn : i \in 1..Len(tables.prompts)}

\* C18: for the served class, every public callable, own or inherited, has a
\* descriptor in exactly one mapping, the one its name prefix selects
\* (resource_ before prompt_ before tools), and no method with an
\* underscore-prefixed name has a descriptor.
C18_ClassificationTotalExclusive ==
    /\ \A n \in PublicCallables(cls) : MappingsOf(mcp, n) = {MappingFor(n)}
    /\ \A n \in Described(mcp) : ~StartsWith(n, "_")

(***************************************************************************)
(* Class definition and URI matching on their own: a class statement with  *)
(* a drawn body is executed by the metaclass, a matcher built by the       *)
(* classifier is applied to a drawn URI.  No instance is being served.     *)
(***************************************************************************)
\* the attributes a studied class body is assembled from: methods of each
\* kind with and without a forward reference to a name that is not defined
BodyAttrs ==
    { Fn("lookup", << P("key", "Missing") >>, "str", "Look a key up."),
      Fn("find", << P("key", "str") >>, "Missing", "Find a record."),
      Fn("ping", << >>, "str", "Ping."),
      Fn("resource_item", << P("item_id", "str") >>, "Missing", "An item."),
      Fn("resource_help", << >>, "str", "Help."),
      Fn("prompt_ask", << P("topic", "Missing") >>, "str", "Ask about a topic."),
      Fn("_hidden", << P("x", "Missing") >>, "", ""),
      Attr("VERSION") }

\* class bodies: the attribute names of a namespace are distinct
Bodies ==
    UNION {{b \in [1..n -> BodyAttrs] : \A i, j \in 1..n : i # j => b[i].attr # b[j].attr} :
             n \in 0..MaxAttrs}

\* the resource methods whose descriptors are matched against, and the
\* descriptor the classifier builds for one
ResourceFns ==
    { Fn("resource_widget", << P("id", "str") >>, "str", ""),
      Fn("resource_doc", << P("doc_id", "str") >>, "str", ""),
      Fn("resource_help", << >>, "str", ""),
      Fn("resource_widget", << >>, "str", "") }

ResourceOf(fn) ==
    _Resource(ResourceUri(fn), Title(ReplaceUnderscore(StripPrefix(fn.attr, 9))),
              _doc_summary(fn), ResourceMime(fn), fn)

CandidateUris ==
    { "res://widget/42", "res://widget/", "res://other/42", "res://widget",
      "res://widget/a/b", "res://widget/42/", "res://widget/{id}", "res://widget/42\n",
      "res://widget\n", "xres://widget/42", "res://doc/doc1", "res://doc/",
      "res://help", "res://help\n", "res://helpx", "" }

\* tool methods with and without a return annotation, and values a handler
\* can return
ReturnFns ==
    { FnOf("MyServiceOrig", "add"), FnOf("MyServiceOrig", "echo"),
      FnOf("TaskServer", "list_tasks"),
      Fn("count", << >>, "int", "Count."),
      Fn("ping", << >>, "", "Ping.") }

ReturnValues ==
    { add([k \in {"a", "b"} |-> IF k = "a" THEN FloatV(2) ELSE FloatV(3)], InitSvc).value,
      StrV("hi"), StrV(""), IntV(5), BoolV(TRUE), NoneV,
      DictV("{\"k\": 1}"), ListV("[1, 2]") }

\* the sample class bodies that are classified whole
SampleBodies == {HelloWorldServiceNs}

ClassProbe(body) == [kind |-> "class", body |-> body, out |-> Pending]
ResultProbe(fn, res) == [kind |-> "result", fn |-> fn, res |-> res, out |-> Pending]
UriProbe(fn, uri) == [kind |-> "uri", resource |-> ResourceOf(fn), uri |-> uri, out |-> Pending]

\* McpServer._instance before any boot
NoInstance == [none |-> TRUE]

\* the number of times a class is booted
MaxBoots == 2

\* McpServer.__init__ for the id-th object of class c
__init__(c, id) ==
    [id |-> id, cls |-> c, _initialized |-> FALSE, _protocol_version |-> "2025-06-18",
     svc |-> InitSvc]

\* McpServer.boot: the instance it creates, stores in cls._instance, attaches
\* to the worker and returns
boot(c, _instance, reuse_initialized, id) ==
    IF reuse_initialized
    THEN [__init__(c, id) EXCEPT !._initialized = TRUE]
    ELSE __init__(c, id)

\* McpServer.get_instance
get_instance(_instance) == _instance

\* a class that has not been booted yet
BootProbe(c) ==
    [kind |-> "boot", cls |-> c, _instance |-> NoInstance, served |-> 0, boots |-> 0,
     reuse_initialized |-> FALSE, replaced |-> NoInstance, out |-> Pending]

DefineInit ==
    /\ cls = "McpServer"
    /\ mcp = McpMeta(cls)
    /\ _initialized = FALSE
    /\ _protocol_version = "2025-06-18"
    /\ svc = InitSvc
    /\ inflight = << >>
    /\ lastReq = NoRequest
    /\ lastPre = FALSE
    /\ lastRet = Nothing
    /\ calls = << >>
    /\ posted = Nothing
    /\ notified = FALSE
    /\ seenMeta = << >>
    /\ \/ probe \in {ClassProbe(b) : b \in Bodies \cup SampleBodies}
       \/ probe \in {UriProbe(fn, u) : fn \in ResourceFns, u \in CandidateUris}
       \/ probe \in {ResultProbe(fn, v) : fn \in ReturnFns, v \in ReturnValues}
       \/ probe \in {BootProbe(c) : c \in Classes}

\* the class statement: McpMeta.__new__ runs over the body
DefineClass ==
    /\ probe.kind = "class"
    /\ probe.out = Pending
    /\ probe' = [probe EXCEPT !.out = McpMetaUpTo(probe.body, Len(probe.body))]
    /\ UNCHANGED << cls, mcp, _initialized, _protocol_version, svc, inflight,
                    lastReq, lastPre, lastRet, calls, posted, notified, seenMeta >>

\* resource.matches_uri(uri)
MatchUri ==
    /\ probe.kind = "uri"
    /\ probe.out = Pending
    /\ probe' = [probe EXCEPT !.out = matches_uri(probe.resource, probe.uri)]
    /\ UNCHANGED << cls, mcp, _initialized, _protocol_version, svc, inflight,
                    lastReq, lastPre, lastRet, calls, posted, notified, seenMeta >>

\* the success branch of tools/call for a handler that returned probe.res
WrapResult ==
    /\ probe.kind = "result"
    /\ probe.out = Pending
    /\ probe' = [probe EXCEPT !.out = ToolResult("1", _build_result_model(probe.fn), probe.res)]
    /\ UNCHANGED << cls, mcp, _initialized, _protocol_version, svc, inflight,
                    lastReq, lastPre, lastRet, calls, posted, notified, seenMeta >>

\* cls.boot(reuse_initialized): the new instance replaces cls._instance and
\* becomes the one the worker's onmessage serves
Boot ==
    /\ probe.kind = "boot"
    /\ probe.boots < MaxBoots
    /\ \E reuse_initialized \in BOOLEAN :
          \E instance \in {boot(probe.cls, probe._instance, reuse_initialized,
                                 probe.boots + 1)} :
             probe' = [probe EXCEPT !._instance = instance,
                                    !.served = instance.id,
                                    !.boots = @ + 1,
                                    !.reuse_initialized = reuse_initialized,
                                    !.replaced = probe._instance,
                                    !.out = instance]
    /\ UNCHANGED << cls, mcp, _initialized, _protocol_version, svc, inflight,
                    lastReq, lastPre, lastRet, calls, posted, notified, seenMeta >>

\* the booted instance handles the client's notifications/initialized
Handshake ==
    /\ probe.kind = "boot"
    /\ probe._instance # NoInstance
    /\ ~probe._instance._initialized
    /\ \E o \in {_handle_request([cls |-> probe.cls, mcp |-> McpMeta(probe.cls),
                                    _initialized |-> probe._instance._initialized,
                                    _protocol_version |-> probe._instance._protocol_version,
                                    svc |-> probe._instance.svc],
                                   Request("2.0", "None", "notifications/initialized",
                                           NoParams), TRUE)} :
          probe' = [probe EXCEPT !._instance._initialized = o._initialized]
    /\ UNCHANGED << cls, mcp, _initialized, _protocol_version, svc, inflight,
                    lastReq, lastPre, lastRet, calls, posted, notified, seenMeta >>

DefineNext == DefineClass \/ MatchUri \/ WrapResult \/ Boot \/ Handshake

DefineSpec == DefineInit /\ [][DefineNext]_vars

\* the public functions of a class body
PublicFns(body) ==
    {i \in 1..Len(body) : body[i].callable /\ ~StartsWith(body[i].attr, "_")}

\* C19: a class statement whose body has a public method with an annotation
\* that cannot be resolved completes without an exception, every public
\* method of the body has its descriptor in the mapping its prefix selects,
\* and no input model keeps the unresolved annotation (it became "any").
C19_UnresolvedAnnotationTolerated ==
    (/\ probe.kind = "class" /\ probe.out # Pending
     /\ \E i \in PublicFns(probe.body) : HintsRaise(probe.body[i])) =>
        /\ probe.out.raises = ""
        /\ \A i \in PublicFns(probe.body) :
              MappingsOf(probe.out, probe.body[i].attr) = {MappingFor(probe.body[i].attr)}
        /\ \A j \in 1..Len(probe.out.tools) :
              \A f \in 1..Len(probe.out.tools[j][2].params_model.fields) :
                 probe.out.tools[j][2].params_model.fields[f].ann \notin Undefined

\* C20: the matcher of a parametric template res://slug/{p} accepts a
\* candidate exactly when it is the prefix res://slug/ followed by one
\* non-empty segment without "/", and then returns {p: segment}; the matcher
\* of a static template accepts exactly the identical URI and returns the
\* empty mapping.
C20_MatcherAcceptsExactly ==
    (probe.kind = "uri" /\ probe.out # Pending) =>
        LET t == probe.resource.uri
            u == probe.uri
            open == IndexOf(t, "{")
            prefix == SubSeq(t, 1, open - 1)
            p == SubSeq(t, open + 1, Len(t) - 1)
            segment == SubSeq(u, Len(prefix) + 1, Len(u))
        IN IF open = 0
           THEN /\ probe.out.matched <=> (u = t)
                /\ probe.out.params = EmptyMap
           ELSE /\ probe.out.matched <=>
                      /\ StartsWith(u, prefix)
                      /\ Len(segment) > 0
                      /\ \A i \in 1..Len(segment) : CharAt(segment, i) # "/"
                /\ probe.out.matched => probe.out.params = [k \in {p} |-> StrV(segment)]
                /\ ~probe.out.matched => probe.out.params = EmptyMap

\* a well-marked resources/read of an initialized session that names a URI
IsRead(req) ==
    /\ WellMarkedReq(req) /\ req.method = "resources/read" /\ lastPre
    /\ req.params.kind = "dict" /\ req.params.uri \notin {"None", ""}

\* the resource methods of a class body
ResourceMethods(c) ==
    {i \in 1..Len(Namespace(c)) :
        Namespace(c)[i].callable /\ StartsWith(Namespace(c)[i].attr, "resource_")}

\* C21: the classifier exposes each resource method under res://slug when it
\* has no parameter and under res://slug/{param} when it has one; a
\* resources/read after the handshake whose URI no descriptor accepts gets
\* the unknown-resource error and runs no method; otherwise the method of
\* the first accepting descriptor runs exactly once, with the extracted
\* value bound to its parameter (with nothing for a static resource), and
\* the result holds one content entry with the requested URI and the
\* descriptor's mimeType.
C21_ResourceRead ==
    /\ \A i \in ResourceMethods(cls) :
          LET fn == Namespace(cls)[i]
              slug == SubSeq(fn.attr, 10, Len(fn.attr))
              template == IF Len(fn.params) = 0 THEN "res://" \o slug
                          ELSE "res://" \o slug \o "/{" \o fn.params[1].name \o "}"
          IN DictHas(mcp.resources, template) /\ DictGet(mcp.resources, template).fn = fn.attr
    /\ (IsRead(lastReq) /\ lastRet # Pending) =>
          LET uri == lastReq.params.uri
              i == FirstMatch(mcp.resources, uri)
          IN IF i = 0
             THEN /\ lastRet = Error(lastReq.id, -32602, "Unknown resource: " \o uri)
                  /\ calls = << >>
             ELSE LET resource == mcp.resources[i][2]
                      fn == FnOf(cls, resource.fn)
                      prefix == "res://" \o SubSeq(fn.attr, 10, Len(fn.attr)) \o "/"
                  IN /\ Len(calls) = 1
                     /\ calls[1].fn = resource.fn
                     /\ calls[1].ran
                     /\ calls[1].args =
                           IF Len(fn.params) = 0 THEN EmptyMap
                           ELSE [k \in {fn.params[1].name} |->
                                    StrV(SubSeq(uri, Len(prefix) + 1, Len(uri)))]
                     /\ IsResult(lastRet)
                     /\ Len(lastRet.result.contents) = 1
                     /\ lastRet.result.contents[1].uri = uri
                     /\ lastRet.result.contents[1].mimeType = resource.mimeType

C21_Witness ==
    /\ cls = "MyService"
    /\ IsRead(lastReq) /\ lastReq.params.uri = "res://doc/alpha"
    /\ Len(calls) = 1 /\ calls[1].fn = "resource_doc"
    /\ calls[1].args = [k \in {"doc_id"} |-> StrV("alpha")]
    /\ IsResult(lastRet)

\* a well-marked prompts/get of an initialized session whose params are a
\* mapping or absent and whose arguments are not null
IsPromptGet(req) ==
    /\ WellMarkedReq(req) /\ req.method = "prompts/get" /\ lastPre
    /\ req.params.kind # "null" /\ req.params.arguments.kind # "null"

\* C22: a prompts/get after the handshake whose name is no key of the prompt
\* mapping gets the unknown-prompt error naming it and runs no method; for a
\* known name the bound method is called once with exactly the supplied
\* named arguments, and the value it returns is the result of the response,
\* unmodified.
C22_PromptGet ==
    (IsPromptGet(lastReq) /\ lastRet # Pending) =>
        LET name == lastReq.params.name
            kv == lastReq.params.arguments.kv
        IN IF ~DictHas(mcp.prompts, name)
           THEN /\ lastRet = Error(lastReq.id, -32602, "Unknown prompt: " \o name)
                /\ calls = << >>
           ELSE LET prompt == DictGet(mcp.prompts, name)
                IN /\ prompt.fn = "prompt_" \o name
                   /\ Len(calls) = 1
                   /\ calls[1].fn = prompt.fn
                   /\ calls[1].args = kv
                   /\ calls[1].ran =>
                         /\ lastRet.id = lastReq.id
                         /\ IsResult(lastRet)
                         /\ lastRet.result =
                               Body(cls, prompt.fn, BoundArgs(FnOf(cls, prompt.fn), kv), svc).value

C22_Witness ==
    /\ cls = "MyService"
    /\ IsPromptGet(lastReq) /\ lastReq.params.name = "summarize"
    /\ DOMAIN lastReq.params.arguments.kv = {"doc_id", "max_words"}
    /\ Len(calls) = 1 /\ calls[1].ran
    /\ lastRet.result = DictV("Summarize document doc1 in 10 words")

\* a tools/call answer that is not error-flagged
Succeeded(p) == p.kind = "result" /\ p.out # Pending /\ ~IsFlagged(p.out)

\* exactly one text content item and no error flag
OneTextItem(r) ==
    /\ IsResult(r)
    /\ DOMAIN r.result = {"content"}
    /\ Len(r.result.content) = 1
    /\ r.result.content[1].type = "text"

\* C23 as stated: a successful tools/call has exactly one text content item
\* and no error flag; with a return annotation the text is the serialization
\* of the value wrapped under the single field "result", without one a
\* string is passed through and any other value JSON-encoded.
C23_WrappedSerialization ==
    Succeeded(probe) =>
        /\ OneTextItem(probe.out)
        /\ probe.out.result.content[1].text =
              IF probe.fn.ret # ""
              THEN "{\"result\": " \o JsonDumps(Coerce(probe.fn.ret, probe.res)) \o "}"
              ELSE IF probe.res.t = "str" THEN probe.res.s
              ELSE JsonDumps(probe.res)

\* C23 amended: a successful tools/call has exactly one text content item
\* and no error flag; with a return annotation the text is the JSON encoding
\* of the value alone, as the single field of the output model holds it (the
\* wrapping field is not part of the text, a string comes out quoted);
\* without one a string is passed through and any other value JSON-encoded.
\* The sum add returns for a = 2, b = 3 comes out as the text 5.0.
C23_ValueSerialization ==
    Succeeded(probe) =>
        /\ OneTextItem(probe.out)
        /\ probe.out.result.content[1].text =
              IF probe.fn.ret # "" THEN JsonDumps(Coerce(probe.fn.ret, probe.res))
              ELSE IF probe.res.t = "str" THEN probe.res.s
              ELSE JsonDumps(probe.res)
        /\ (probe.fn.attr = "add" /\ probe.res = FloatV(5)) =>
              probe.out.result.content[1].text = "5.0"

C23_Witness ==
    /\ Succeeded(probe)
    /\ probe.fn.attr = "add"
    /\ probe.res = FloatV(5)
    /\ probe.out.result.content[1].text = "5.0"

\* the resource methods of the sample classes that return a finished
\* payload, a mapping with its own mimeType and text, and those two fields
ReturnsPayload(c, attr) == c = "TaskServer" /\ attr = "resource_stats"

FinishedPayload(c, attr, s) ==
    LET completed == Cardinality({i \in 1..Len(s.tasks) : s.tasks[i].completed})
    IN [mimeType |-> "application/json",
        text |-> "{\"total_tasks\": " \o ToString(Len(s.tasks)) \o ", \"completed\": "
                 \o ToString(completed) \o ", \"pending\": "
                 \o ToString(Len(s.tasks) - completed) \o "}"]

\* C24: a resources/read whose method returns a finished payload delivers a
\* content entry with the payload's own mimeType and text, unchanged; one
\* whose method returns a plain string s delivers mimeType text/plain and
\* text s.
C24_ResourceContentNormalized ==
    (IsRead(lastReq) /\ IsResult(lastRet) /\ Len(calls) = 1) =>
        LET content == lastRet.result.contents[1]
            value == Body(cls, calls[1].fn, BoundArgs(FnOf(cls, calls[1].fn), calls[1].args),
                          svc).value
        IN /\ ReturnsPayload(cls, calls[1].fn) =>
                 /\ content.mimeType = FinishedPayload(cls, calls[1].fn, svc).mimeType
                 /\ content.text = FinishedPayload(cls, calls[1].fn, svc).text
           /\ value.t = "str" =>
                 /\ content.mimeType = "text/plain"
                 /\ content.text = value.s

\* C25: in every state an instance can reach, whatever requests it has
\* handled and however they ended, the three class-level mappings are the
\* ones the metaclass built when the class was defined.
C25_TablesImmutable == mcp = McpMeta(cls)

C25_Witness ==
    /\ cls = "TaskServer"
    /\ _initialized
    /\ Len(svc.tasks) = 3
    /\ Len(calls) = 1 /\ calls[1].raised
    /\ mcp = McpMeta(cls)

\* C26: requests of one instance are handled one at a time in the order
\* received: while the handler of an earlier request is still in flight, the
\* only thing that happens is that this earliest handler completes and its
\* response is posted; no later message is taken up before that.
C26_OneAtATime ==
    [][inflight # << >> =>
         /\ inflight' = Tail(inflight)
         /\ lastReq' = Head(inflight).req]_vars

\* C27: after a boot with reuse_initialized that replaces an instance, the
\* new instance is INITIALIZED exactly when the replaced instance had
\* completed the handshake; after a boot without it the new instance is
\* UNINITIALIZED; and get_instance() returns the instance the boot created.
C27_BootPreservesHandshake ==
    (probe.kind = "boot" /\ probe.boots > 0) =>
        /\ (probe.reuse_initialized /\ probe.replaced # NoInstance) =>
              (probe.out._initialized <=> probe.replaced._initialized)
        /\ ~probe.reuse_initialized => ~probe.out._initialized
        /\ get_instance(probe._instance).id = probe.out.id

\* C28: the mappings the classifier builds for the body of HelloWorldService
\* have the sizes SERVER_INFO advertises: the tools are exactly greet,
\* calculate and echo, there are three resources and three prompts, and the
\* three sizes add up to the advertised total of endpoints.
C28_AdvertisedCounts ==
    (probe.kind = "class" /\ probe.body = HelloWorldServiceNs /\ probe.out # Pending) =>
        /\ probe.out.raises = ""
        /\ DictKeys(probe.out.tools) = {"greet", "calculate", "echo"}
        /\ Len(probe.out.tools) = SERVER_INFO.features.tools
        /\ Len(probe.out.resources) = SERVER_INFO.features.resources
        /\ DictKeys(probe.out.resources) =
              {"res://getting_started", "res://examples", "res://api_reference"}
        /\ Len(probe.out.prompts) = SERVER_INFO.features.prompts
        /\ DictKeys(probe.out.prompts) =
              {"conversation_starter", "calculator_guide", "echo_tester"}
        /\ Len(probe.out.tools) + Len(probe.out.resources) + Len(probe.out.prompts)
              = SERVER_INFO.features.total_endpoints

C28_Witness ==
    /\ probe.kind = "class"
    /\ probe.body = HelloWorldServiceNs
    /\ probe.out # Pending
    /\ Len(probe.out.tools) = 3
    /\ DictGet(probe.out.tools, "calculate").params_model.fields[1].name = "operation"

\* the return annotations that declare a dict: the bare type and its
\* parameterised forms
DeclaresDict(fn) == fn.ret = "dict" \/ StartsWith(fn.ret, "dict[")

\* the content-type a resource method declares through its return annotation
DeclaredMime(fn) == IF DeclaresDict(fn) THEN "application/json" ELSE "text/plain"

\* C29: the descriptor of every resource method carries application/json
\* when the method is declared to return a dict and text/plain when it is
\* declared to return str or declares nothing, and that content-type is the
\* one resources/list shows for the resource and resources/read puts on the
\* content it returns.
C29_DeclaredContentType ==
    /\ \A i \in 1..Len(mcp.resources) :
          LET fn == FnOf(cls, mcp.resources[i][2].fn)
          IN (DeclaresDict(fn) \/ fn.ret \in {"str", ""}) =>
                mcp.resources[i][2].mimeType = DeclaredMime(fn)
    /\ (WellMarkedReq(lastReq) /\ lastReq.method = "resources/list" /\ IsResult(lastRet)) =>
          \A i \in 1..Len(lastRet.result.resources) :
             lastRet.result.resources[i].mimeType =
                DeclaredMime(FnOf(cls, DictGet(mcp.resources,
                                               lastRet.result.resources[i].uri).fn))
    /\ (IsRead(lastReq) /\ IsResult(lastRet) /\ Len(calls) = 1) =>
          lastRet.result.contents[1].mimeType = DeclaredMime(FnOf(cls, calls[1].fn))

\* a well-marked tools/call of an initialized session, and the name it asks for
IsAnyToolCall(req) == WellMarkedReq(req) /\ req.method = "tools/call" /\ lastPre

ToolName(req) == IF req.params.kind = "dict" THEN req.params.name ELSE "None"

\* C30: no key of the tools mapping is underscore-prefixed, names a
\* resource_* or prompt_* method or a framework classmethod; a tools/call
\* after the handshake for a name that is not a key gets the unknown-tool
\* error and invokes no method, and whatever a tools/call invokes is the
\* method of the entry it named.
C30_OnlyToolsReachable ==
    /\ \A k \in DictKeys(mcp.tools) :
          /\ ~StartsWith(k, "_") /\ ~StartsWith(k, "resource_") /\ ~StartsWith(k, "prompt_")
          /\ k \notin ClassMethods("McpServer")
    /\ (IsAnyToolCall(lastReq) /\ lastRet # Pending) =>
          IF ToolName(lastReq) \in DictKeys(mcp.tools)
          THEN \A i \in 1..Len(calls) : calls[i].fn = DictGet(mcp.tools, ToolName(lastReq)).fn
          ELSE /\ lastRet = Error(lastReq.id, -32601, "Unknown tool: " \o ToolName(lastReq))
               /\ calls = << >>

C30_Witness ==
    /\ cls = "MyService"
    /\ IsAnyToolCall(lastReq)
    /\ ToolName(lastReq) = "resource_help"
    /\ lastRet = Error(lastReq.id, -32601, "Unknown tool: resource_help")
    /\ calls = << >>

====
